---- MODULE Spec2Model ----
(***************************************************************************)
(* Model of the transcript extraction cascade of html_unified.py           *)
(* (class TranscriptExtractor).                                            *)
(*                                                                         *)
(* Text is modelled as a sequence of runs [c |-> chunk, n |-> count]: the  *)
(* chunk c repeated n times.  A chunk is a single character ("a", " ",     *)
(* "\n", ":", ...) or one of the phrases the code tests for.  The length   *)
(* of a text is the sum of the lengths of its runs, so the program's       *)
(* thresholds (500, 20, 100, 10) keep their values.                        *)
(*                                                                         *)
(* A document is an element tree (the soup); html_content is its           *)
(* serialisation, on which the two regular-expression strategies work.     *)
(*                                                                         *)
(* Further parts: extract_from_file and process_directory of               *)
(* html_unified.py (SpecFile, SpecRepeat), the thread pool of              *)
(* transcript-extractor.py (SpecWorkers), the page loops of                *)
(* link-collector.py and unified.py (SpecLinks), download_content of       *)
(* play.py (SpecPlay), and the links table shared by the processes of      *)
(* link-collector.py, content-downloader.py and transcript-extractor.py    *)
(* (SpecTable, and SpecTableFair with the polling loops kept running).     *)
(* Each specification starts the other parts idle.                         *)
(***************************************************************************)
EXTENDS Integers, Sequences, FiniteSets, TLC

VARIABLES soup, html_content, pc, content, result, invoked,
          title, date, author, seen,
          links, workers,
          max_links, site, current_page, links_collected, stored, all_links, lc_pc,
          max_articles, batch_size, downloaded, files, articles_downloaded,
          total_retries, dl_links, batch, link, retry_count, success, browser, dl_pc,
          unique_index, seekingalpha_links, html_files, failing, unreadable, store,
          cd_batch_size, cd_links, cd_pc, ex_batch_size, ex_links, ex_pc

vars == <<soup, html_content, pc, content, result, invoked,
          title, date, author, seen, links, workers,
          max_links, site, current_page, links_collected, stored, all_links, lc_pc,
          max_articles, batch_size, downloaded, files, articles_downloaded,
          total_retries, dl_links, batch, link, retry_count, success, browser, dl_pc,
          unique_index, seekingalpha_links, html_files, failing, unreadable, store,
          cd_batch_size, cd_links, cd_pc, ex_batch_size, ex_links, ex_pc>>

\* html_unified.py: the state of extract_content and of extract_from_file
cascade == <<soup, html_content, pc, content, result, invoked>>
file == <<title, date, author, seen>>

\* transcript-extractor.py: the batch of links and the worker threads
pool == <<links, workers>>

\* link-collector.py collect_links and unified.py extract_links
collector == <<max_links, site, current_page, links_collected, stored, all_links, lc_pc>>

\* play.py download_content
download == <<max_articles, batch_size, downloaded, files, articles_downloaded,
              total_retries, dl_links, batch, link, retry_count, success, browser, dl_pc>>

\* the links table, the files and the processes of link-collector.py,
\* content-downloader.py and transcript-extractor.py that share them
shared == <<unique_index, seekingalpha_links, html_files, failing, unreadable, store,
            cd_batch_size, cd_links, cd_pc, ex_batch_size, ex_links, ex_pc>>

\* what the programs other than html_unified.py work on
others == <<pool, collector, download, shared>>

\* what extract_content of html_unified.py does not touch
rest == <<file, others>>

(***************************************************************************)
(* Strings                                                                 *)
(***************************************************************************)

R(c, n) == [c |-> c, n |-> n]

\* "a" * n
A(n) == <<R("a", n)>>

\* the characters str.strip() removes
IsSpace(c) == c \in {" ", "\n"}

\* len() of one chunk
ChunkLen(c) ==
  CASE c = "Make the most of Premium" -> 24
    [] c = "make the most of premium" -> 24
    [] c = "SEEKING ALPHA" -> 13
    [] c = "seeking alpha" -> 13
    [] c = "Seeking Alpha" -> 13
    [] c = "Disclosure:" -> 11
    [] c = "disclosure:" -> 11
    [] c = "all rights reserved" -> 19
    [] c = "Transcript" -> 10
    [] c = "transcript" -> 10
    [] c = "Earnings Call" -> 13
    [] c = "earnings call" -> 13
    [] c = "Question-and-Answer" -> 19
    [] c = "question-and-answer" -> 19
    [] c = "Q&A" -> 3
    [] c = "Questions and Answers" -> 21
    [] c = "editor's note" -> 13
    [] c = "Content extraction failed" -> 25
    [] c = "content" -> 7
    [] c = "text" -> 4
    [] OTHER -> 1

RECURSIVE StrLen(_)
\* len(s)
StrLen(s) ==
  IF s = <<>> THEN 0
  ELSE IF Len(s) = 1 THEN ChunkLen(s[1].c) * s[1].n
  ELSE LET half == Len(s) \div 2
       IN StrLen(SubSeq(s, 1, half)) + StrLen(SubSeq(s, half + 1, Len(s)))

RECURSIVE LStrip(_)
LStrip(s) ==
  IF s = <<>> THEN s
  ELSE IF IsSpace(Head(s).c) THEN LStrip(Tail(s)) ELSE s

RECURSIVE RStrip(_)
RStrip(s) ==
  IF s = <<>> THEN s
  ELSE IF IsSpace(s[Len(s)].c) THEN RStrip(SubSeq(s, 1, Len(s) - 1)) ELSE s

\* s.strip()
Strip(s) == RStrip(LStrip(s))

\* one chunk of s.lower()
LowerChunk(c) ==
  CASE c = "Make the most of Premium" -> "make the most of premium"
    [] c = "SEEKING ALPHA" -> "seeking alpha"
    [] c = "Seeking Alpha" -> "seeking alpha"
    [] c = "Disclosure:" -> "disclosure:"
    [] c = "Transcript" -> "transcript"
    [] c = "Earnings Call" -> "earnings call"
    [] c = "Question-and-Answer" -> "question-and-answer"
    [] OTHER -> c

\* s.lower()
Lower(s) == [i \in 1..Len(s) |-> R(LowerChunk(s[i].c), s[i].n)]

\* x in s, for a phrase x that is one chunk
Contains(s, x) == \E i \in 1..Len(s) : s[i].c = x /\ s[i].n >= 1

\* the separator "\n\n"
Sep == <<R("\n", 2)>>

RECURSIVE Join(_)
\* "\n\n".join(parts)
Join(parts) ==
  IF parts = <<>> THEN <<>>
  ELSE IF Len(parts) = 1 THEN parts[1]
  ELSE LET half == Len(parts) \div 2
       IN Join(SubSeq(parts, 1, half)) \o Sep \o Join(SubSeq(parts, half + 1, Len(parts)))

RECURSIVE Concat(_)
\* "".join(parts)
Concat(parts) ==
  IF parts = <<>> THEN <<>>
  ELSE IF Len(parts) = 1 THEN parts[1]
  ELSE LET half == Len(parts) \div 2
       IN Concat(SubSeq(parts, 1, half)) \o Concat(SubSeq(parts, half + 1, Len(parts)))

\* the members of seq, in order, whose index is i or more and satisfies Test
SelectSeqIdx(seq, Test(_), i) ==
  LET kept == {j \in i..Len(seq) : Test(j)}
  IN [k \in 1..Cardinality(kept) |->
        seq[CHOOSE j \in kept : Cardinality({m \in kept : m <= j}) = k]]

(***************************************************************************)
(* The parsed document (BeautifulSoup tree)                                *)
(***************************************************************************)

NoAttr == [k |-> "", v |-> ""]

\* an element <tag k="v"> kids </tag>
E(tag, k, v, kids) == [tag |-> tag, attr |-> [k |-> k, v |-> v], text |-> <<>>, kids |-> kids]

\* a text node (NavigableString)
T(s) == [tag |-> "#text", attr |-> NoAttr, text |-> s, kids |-> <<>>]

\* the BeautifulSoup object: the root above the top-level nodes
Root(kids) == [tag |-> "[document]", attr |-> NoAttr, text |-> <<>>, kids |-> kids]

IsTag(node) == node.tag # "#text"

RECURSIVE Text(_)
\* element.text: all the strings below the element, concatenated
Text(node) ==
  IF node.tag = "#text" THEN node.text
  ELSE Concat([i \in 1..Len(node.kids) |-> Text(node.kids[i])])

RECURSIVE NodeAt(_, _)
\* the node reached from node by the child indices of path
NodeAt(node, path) ==
  IF path = <<>> THEN node ELSE NodeAt(node.kids[Head(path)], Tail(path))

RECURSIVE Below(_, _)
\* the paths of the elements strictly below the node at prefix, in document order
Below(node, prefix) ==
  Concat([i \in 1..Len(node.kids) |->
            IF IsTag(node.kids[i])
            THEN <<prefix \o <<i>>>> \o Below(node.kids[i], prefix \o <<i>>)
            ELSE <<>>])

\* a simple selector: tag name, one attribute test, :contains() phrase ("" = no test)
Sel(tag, k, v, has) == [tag |-> tag, k |-> k, v |-> v, has |-> has]

Matches(node, sel) ==
  /\ sel.tag = "" \/ node.tag = sel.tag
  /\ sel.k = "" \/ (node.attr.k = sel.k /\ node.attr.v = sel.v)
  /\ sel.has = "" \/ Contains(Text(node), sel.has)

\* element.select(selector list): paths of the matching descendants, document order
select(root, from, sels) ==
  LET all == Below(NodeAt(root, from), from)
      Hit(i) == \E j \in 1..Len(sels) : Matches(NodeAt(root, all[i]), sels[j])
  IN SelectSeqIdx(all, Hit, 1)

\* the value None
None == <<0>>

\* element.select_one(selector)
select_one(root, from, sel) ==
  LET hits == select(root, from, <<sel>>)
  IN IF hits = <<>> THEN None ELSE hits[1]

\* element.parent, as a path
parent(path) == SubSeq(path, 1, Len(path) - 1)

\* element.find_next_sibling(): the next sibling that is a tag, or None
find_next_sibling(root, path) ==
  IF path = <<>> THEN None
  ELSE LET sibs == NodeAt(root, parent(path)).kids
           later == {i \in (path[Len(path)] + 1)..Len(sibs) : IsTag(sibs[i])}
       IN IF later = {} THEN None
          ELSE parent(path) \o <<CHOOSE i \in later : \A j \in later : i <= j>>

(***************************************************************************)
(* The raw markup (html_content)                                           *)
(***************************************************************************)

RECURSIVE Serialize(_)
\* the markup of which the tree is the parse: a sequence of open tags,
\* close tags and text
Serialize(node) ==
  IF node.tag = "#text" THEN <<[k |-> "text", tag |-> "", attr |-> NoAttr, text |-> node.text]>>
  ELSE LET inner == Concat([i \in 1..Len(node.kids) |-> Serialize(node.kids[i])])
       IN IF node.tag = "[document]" THEN inner
          ELSE <<[k |-> "open", tag |-> node.tag, attr |-> node.attr, text |-> <<>>]>>
               \o inner
               \o <<[k |-> "close", tag |-> node.tag, attr |-> NoAttr, text |-> <<>>]>>

(***************************************************************************)
(* The strategies that read the tree                                       *)
(***************************************************************************)

\* the texts, stripped, of the elements at the paths
StrippedTexts(root, paths) ==
  [i \in 1..Len(paths) |-> Strip(Text(NodeAt(root, paths[i])))]

transcript_section_selectors ==
  << Sel("", "class", "transcript-section", ""),
     Sel("", "class", "transcript-text", ""),
     Sel("", "class", "sa-transcript", ""),
     Sel("", "data-id", "sa-transcript", ""),
     Sel("", "id", "sa-transcript", "") >>

qa_selectors ==
  << Sel("strong", "", "", "Question-and-Answer"),
     Sel("h2", "", "", "Q&A"),
     Sel("h3", "", "", "Questions and Answers") >>

RECURSIVE qa_walk_any_tag(_, _)
\* qa_walk, collecting every element whatever its tag
qa_walk_any_tag(root, current_section) ==
  IF current_section = None THEN <<>>
  ELSE <<Strip(Text(NodeAt(root, current_section)))>>
       \o qa_walk_any_tag(root, find_next_sibling(root, current_section))

RECURSIVE qa_walk(_, _)
\* the while loop of extract_transcript_sections: content_parts
qa_walk(root, current_section) ==
  IF current_section = None THEN <<>>
  ELSE (IF NodeAt(root, current_section).tag \in {"div", "section"}
        THEN <<Strip(Text(NodeAt(root, current_section)))>>
        ELSE <<>>)
       \o qa_walk(root, find_next_sibling(root, current_section))

\* extract_transcript_sections, taking the first marker element only
extract_transcript_sections_first(root) ==
  LET transcript_sections == select(root, <<>>, transcript_section_selectors)
  IN IF transcript_sections # <<>>
     THEN Strip(Text(NodeAt(root, transcript_sections[1])))
     ELSE <<>>

\* Method 1
extract_transcript_sections(root) ==
  LET transcript_sections == select(root, <<>>, transcript_section_selectors)
      qa_sections == select(root, <<>>, qa_selectors)
  IN IF transcript_sections # <<>>
     THEN Join(StrippedTexts(root, transcript_sections))
     ELSE IF qa_sections # <<>>
     THEN LET content_parts == qa_walk(root, parent(qa_sections[1]))
          IN IF content_parts # <<>> THEN Join(content_parts) ELSE <<>>
     ELSE <<>>

container_selectors ==
  << Sel("div", "data-test-id", "content-container", ""),
     Sel("", "class", "paywall-content", ""),
     Sel("", "id", "content-container", ""),
     Sel("", "class", "sa-art", ""),
     Sel("article", "class", "sa-content", ""),
     Sel("", "class", "article-content", ""),
     Sel("", "id", "a-body", ""),
     Sel("div", "class", "media-article-content", "") >>

denylist ==
  { "disclosure:", "disclosure :", "©", "all rights reserved",
    "seeking alpha", "editor's note", "make the most of premium" }

\* is_premium_only, with the length compared by <=
is_premium_only_le(container_text) ==
  Contains(container_text, "Make the most of Premium") /\ StrLen(container_text) <= 100

\* "Skip containers with premium messages only"
is_premium_only(container_text) ==
  Contains(container_text, "Make the most of Premium") /\ StrLen(container_text) < 100

\* keep_paragraph, comparing with the denylist without lower()
keep_paragraph_cased(p_text) ==
  /\ p_text # <<>>
  /\ StrLen(p_text) > 20
  /\ ~ \E x \in denylist : Contains(p_text, x)

\* the filter on a paragraph of a container
keep_paragraph(p_text) ==
  /\ p_text # <<>>
  /\ StrLen(p_text) > 20
  /\ ~ \E x \in denylist : Contains(Lower(p_text), x)

\* filtered_paragraphs of the container at path
filtered_paragraphs(root, container) ==
  LET paragraphs == StrippedTexts(root, select(root, container, <<Sel("p", "", "", "")>>))
      Keep(i) == keep_paragraph(paragraphs[i])
  IN SelectSeqIdx(paragraphs, Keep, 1)

RECURSIVE containers_first_only(_, _)
\* containers_from, giving up at the first container that is not skipped
containers_first_only(root, i) ==
  IF i > Len(container_selectors) THEN <<>>
  ELSE LET container == select_one(root, <<>>, container_selectors[i])
       IN IF container = None THEN containers_first_only(root, i + 1)
          ELSE IF is_premium_only(Text(NodeAt(root, container)))
          THEN containers_first_only(root, i + 1)
          ELSE Join(filtered_paragraphs(root, container))

RECURSIVE containers_from(_, _)
\* the for loop of extract_from_content_containers from selector number i on
containers_from(root, i) ==
  IF i > Len(container_selectors) THEN <<>>
  ELSE LET container == select_one(root, <<>>, container_selectors[i])
       IN IF container = None THEN containers_from(root, i + 1)
          ELSE IF is_premium_only(Text(NodeAt(root, container)))
          THEN containers_from(root, i + 1)
          ELSE IF filtered_paragraphs(root, container) # <<>>
          THEN Join(filtered_paragraphs(root, container))
          ELSE containers_from(root, i + 1)

\* Method 2
extract_from_content_containers(root) == containers_from(root, 1)

transcript_header_selectors ==
  << Sel("h2", "", "", "Transcript"), Sel("h2", "", "", "Earnings Call"),
     Sel("h3", "", "", "Transcript"), Sel("h3", "", "", "Earnings Call") >>

RECURSIVE header_walk_stop(_, _)
\* the while loop, ended by the first sibling that is not a paragraph
header_walk_stop(root, current_elem) ==
  IF current_elem = None THEN <<>>
  ELSE IF NodeAt(root, current_elem).tag = "p"
       THEN <<Strip(Text(NodeAt(root, current_elem)))>>
            \o header_walk_stop(root, find_next_sibling(root, current_elem))
       ELSE <<>>

RECURSIVE header_walk(_, _)
\* the while loop of extract_after_header_patterns: paragraphs
header_walk(root, current_elem) ==
  IF current_elem = None THEN <<>>
  ELSE (IF NodeAt(root, current_elem).tag = "p"
        THEN <<Strip(Text(NodeAt(root, current_elem)))>>
        ELSE <<>>)
       \o header_walk(root, find_next_sibling(root, current_elem))

\* extract_after_header_patterns, returning the failure text when no header matches
extract_after_header_patterns_fail(root) ==
  LET transcript_headers == select(root, <<>>, transcript_header_selectors)
  IN IF transcript_headers # <<>>
     THEN LET paragraphs == header_walk(root, find_next_sibling(root, transcript_headers[1]))
          IN IF paragraphs # <<>> THEN Join(paragraphs) ELSE <<>>
     ELSE <<R("Content extraction failed", 1)>>

\* Method 3
extract_after_header_patterns(root) ==
  LET transcript_headers == select(root, <<>>, transcript_header_selectors)
  IN IF transcript_headers # <<>>
     THEN LET paragraphs == header_walk(root, find_next_sibling(root, transcript_headers[1]))
          IN IF paragraphs # <<>> THEN Join(paragraphs) ELSE <<>>
     ELSE <<>>

\* extract_from_pre_elements, keeping a pre element of 500 characters
extract_from_pre_elements_ge(root) ==
  LET pre_elements == StrippedTexts(root, select(root, <<>>, <<Sel("pre", "", "", "")>>))
      Long(i) == StrLen(pre_elements[i]) >= 500
      pre_texts == SelectSeqIdx(pre_elements, Long, 1)
  IN IF pre_texts # <<>> THEN Join(pre_texts) ELSE <<>>

\* Method 5
extract_from_pre_elements(root) ==
  LET pre_elements == StrippedTexts(root, select(root, <<>>, <<Sel("pre", "", "", "")>>))
      Long(i) == StrLen(pre_elements[i]) > 500
      pre_texts == SelectSeqIdx(pre_elements, Long, 1)
  IN IF pre_texts # <<>> THEN Join(pre_texts) ELSE <<>>

\* all_paragraphs_text, with the denylist of method 2 applied
all_paragraphs_text_denylist(root) ==
  LET all_paragraphs == StrippedTexts(root, select(root, <<>>, <<Sel("p", "", "", "")>>))
      Long(i) == keep_paragraph(all_paragraphs[i])
  IN Join(SelectSeqIdx(all_paragraphs, Long, 1))

\* the fallback: the paragraphs of the whole document over 20 characters
all_paragraphs_text(root) ==
  LET all_paragraphs == StrippedTexts(root, select(root, <<>>, <<Sel("p", "", "", "")>>))
      Long(i) == StrLen(all_paragraphs[i]) > 20
  IN Join(SelectSeqIdx(all_paragraphs, Long, 1))

(***************************************************************************)
(* The strategies that read the raw markup with regular expressions.       *)
(* In the text of a script the characters {, }, ", :, \ and the words      *)
(* transcript, content, text are written one per run.                      *)
(***************************************************************************)

Q == "\""
BS == "\\"

Is(s, i, c) == i >= 1 /\ i <= Len(s) /\ s[i].c = c /\ s[i].n = 1

\* s[i..i+2] is the quoted word "word"
IsKey(s, i, word) == Is(s, i, Q) /\ Is(s, i + 1, word) /\ Is(s, i + 2, Q)

RECURSIVE SkipSpace(_, _)
\* \s* from position i: the first position at or after i that is not white space
SkipSpace(s, i) ==
  IF i <= Len(s) /\ IsSpace(s[i].c) THEN SkipSpace(s, i + 1) ELSE i

\* the least member of a non-empty set of numbers
Least(S) == CHOOSE i \in S : \A j \in S : i <= j

RECURSIVE script_findall(_, _)
\* script_pattern.findall(html_content): <script[^>]*>(.*?)</script>, from
\* position i on
script_findall(html, i) ==
  LET opens == {j \in i..Len(html) : html[j].k = "open" /\ html[j].tag = "script"}
  IN IF opens = {} THEN <<>>
     ELSE LET open == Least(opens)
              ends == {j \in (open + 1)..Len(html) :
                         html[j].k = "close" /\ html[j].tag = "script"}
          IN IF ends = {} THEN <<>>
             ELSE <<Concat([j \in 1..(Least(ends) - open - 1) |-> html[open + j].text])>>
                  \o script_findall(html, Least(ends) + 1)

\* json_pattern.search(script): \{[^}]*"transcript"[^}]*\}
json_search(script) ==
  \E i \in 1..Len(script) : \E j \in (i + 1)..Len(script) :
     /\ Is(script, i, "{")
     /\ IsKey(script, j, "transcript")
     /\ \A m \in (i + 1)..(j - 1) : script[m].c # "}"
     /\ \E m \in (j + 3)..Len(script) : script[m].c = "}"

\* where the value of a match of "key"\s*:\s*"([^"]*)" starting at i begins,
\* or 0 when there is no match at i
value_start(script, i, key) ==
  IF ~ IsKey(script, i, key) THEN 0
  ELSE LET colon == SkipSpace(script, i + 3)
           quote == SkipSpace(script, colon + 1)
       IN IF Is(script, colon, ":") /\ Is(script, quote, Q)
             /\ \E m \in (quote + 1)..Len(script) : script[m].c = Q
          THEN quote + 1 ELSE 0

NoMatch == <<[c |-> "NoMatch", n |-> 0]>>

\* value_search, with the value ending at the first quote that no backslash precedes
value_search_escaped(script, key) ==
  LET starts == {i \in 1..Len(script) : value_start(script, i, key) # 0}
  IN IF starts = {} THEN NoMatch
     ELSE LET from == value_start(script, Least(starts), key)
              to == Least({m \in from..Len(script) :
                             script[m].c = Q /\ (m = from \/ script[m - 1].c # BS)})
          IN SubSeq(script, from, to - 1)

\* key_pattern.search(script).group(1), or NoMatch
value_search(script, key) ==
  LET starts == {i \in 1..Len(script) : value_start(script, i, key) # 0}
  IN IF starts = {} THEN NoMatch
     ELSE LET from == value_start(script, Least(starts), key)
              to == Least({m \in from..Len(script) : script[m].c = Q})
          IN SubSeq(script, from, to - 1)

RECURSIVE replace(_, _, _, _)
\* s.replace(a b, r), for two different characters a and b
replace(s, a, b, r) ==
  IF Len(s) < 2 THEN s
  ELSE IF s[1].c = a /\ s[2].c = b
  THEN (IF s[1].n > 1 THEN <<R(a, s[1].n - 1)>> ELSE <<>>)
       \o <<R(r, 1)>>
       \o replace((IF s[2].n > 1 THEN <<R(b, s[2].n - 1)>> ELSE <<>>) \o Tail(Tail(s)), a, b, r)
  ELSE <<s[1]>> \o replace(Tail(s), a, b, r)

\* "Unescape JSON content"
unescape(s) == replace(replace(s, BS, Q, Q), BS, "n", "\n")

RECURSIVE scripts_text_first(_, _)
\* scripts_from, trying "text" before "content"
scripts_text_first(script_matches, i) ==
  IF i > Len(script_matches) THEN <<>>
  ELSE LET script == script_matches[i]
       IN IF json_search(script)
          THEN IF value_search(script, "text") # NoMatch
               THEN unescape(value_search(script, "text"))
               ELSE IF value_search(script, "content") # NoMatch
               THEN unescape(value_search(script, "content"))
               ELSE scripts_text_first(script_matches, i + 1)
          ELSE scripts_text_first(script_matches, i + 1)

RECURSIVE scripts_from(_, _)
\* the for loop of extract_from_scripts from script number i on
scripts_from(script_matches, i) ==
  IF i > Len(script_matches) THEN <<>>
  ELSE LET script == script_matches[i]
       IN IF json_search(script)
          THEN IF value_search(script, "content") # NoMatch
               THEN unescape(value_search(script, "content"))
               ELSE IF value_search(script, "text") # NoMatch
               THEN unescape(value_search(script, "text"))
               ELSE scripts_from(script_matches, i + 1)
          ELSE scripts_from(script_matches, i + 1)

\* Method 4
extract_from_scripts(html) == scripts_from(script_findall(html, 1), 1)

HasColon(c) == c \in {":", "Disclosure:", "disclosure:", "disclosure :"}

\* speaker_pattern matches at i: <strong>([^<:]+):</strong>([^<]+)
speaker_match(html, i) ==
  /\ i + 3 <= Len(html)
  /\ html[i].k = "open" /\ html[i].tag = "strong" /\ html[i].attr = NoAttr
  /\ html[i + 1].k = "text"
  /\ Len(html[i + 1].text) >= 2
  /\ Is(html[i + 1].text, Len(html[i + 1].text), ":")
  /\ \A m \in 1..(Len(html[i + 1].text) - 1) : ~ HasColon(html[i + 1].text[m].c)
  /\ html[i + 2].k = "close" /\ html[i + 2].tag = "strong"
  /\ html[i + 3].k = "text"
  /\ html[i + 3].text # <<>>

\* speaker_pattern.findall(html_content): the (speaker, text) pairs
speaker_findall(html) ==
  LET At(i) == speaker_match(html, i)
      Pair(i) == [speaker |-> SubSeq(html[i + 1].text, 1, Len(html[i + 1].text) - 1),
                  text |-> html[i + 3].text]
      starts == SelectSeqIdx([i \in 1..Len(html) |-> i], At, 1)
  IN [m \in 1..Len(starts) |-> Pair(starts[m])]

\* extract_transcript_pattern, accepting 10 matches
extract_transcript_pattern_ge10(html) ==
  LET matches == speaker_findall(html)
  IN IF matches # <<>> /\ Len(matches) >= 10
     THEN Join([m \in 1..Len(matches) |->
                  Strip(matches[m].speaker) \o <<R(":", 1), R(" ", 1)>> \o Strip(matches[m].text)])
     ELSE <<>>

\* Method 6
extract_transcript_pattern(html) ==
  LET matches == speaker_findall(html)
  IN IF matches # <<>> /\ Len(matches) > 10
     THEN Join([m \in 1..Len(matches) |->
                  Strip(matches[m].speaker) \o <<R(":", 1), R(" ", 1)>> \o Strip(matches[m].text)])
     ELSE <<>>


(***************************************************************************)
(* extract_title, extract_date, extract_author                             *)
(***************************************************************************)
title_selectors ==
  << Sel("h1", "", "", ""), Sel("h1", "class", "title", ""),
     Sel("", "data-test-id", "post-title", ""), Sel("", "class", "title", "") >>

date_selectors ==
  << Sel("time", "", "", ""), Sel("", "data-test-id", "post-date", ""),
     Sel("", "class", "post-date", ""), Sel("", "class", "sa-art-date", "") >>

author_selectors ==
  << Sel("", "data-test-id", "author-name", ""), Sel("", "class", "author-link", ""),
     Sel("", "class", "author-name", "") >>

\* the loop over the selectors, returning the first match of all the
\* selectors together in document order
selectors_in_document_order(root, selectors, i, sentinel) ==
  LET hits == select(root, <<>>, selectors)
  IN IF hits = <<>> THEN sentinel ELSE Strip(Text(NodeAt(root, hits[1])))

RECURSIVE selectors_from(_, _, _, _)
\* "for selector in selectors: elem = soup.select_one(selector);
\*  if elem: return elem.text.strip()" and the sentinel after the loop; an
\* element is true whatever its contents
selectors_from(root, selectors, i, sentinel) ==
  IF i > Len(selectors) THEN sentinel
  ELSE LET elem == select_one(root, <<>>, selectors[i])
       IN IF elem # None THEN Strip(Text(NodeAt(root, elem)))
          ELSE selectors_from(root, selectors, i + 1, sentinel)

extract_title(root) ==
  selectors_from(root, title_selectors, 1, <<R("Title not found", 1)>>)

extract_date(root) ==
  selectors_from(root, date_selectors, 1, <<R("Date not found", 1)>>)

extract_author(root) ==
  selectors_from(root, author_selectors, 1, <<R("Author not found", 1)>>)

(***************************************************************************)
(* transcript-extractor.py: the cascade the worker threads run             *)
(***************************************************************************)
te_transcript_section_selectors ==
  << Sel("", "class", "transcript-section", ""), Sel("", "class", "transcript-text", ""),
     Sel("", "class", "sa-transcript", "") >>

te_extract_from_transcript_sections(root) ==
  LET transcript_sections == select(root, <<>>, te_transcript_section_selectors)
  IN IF transcript_sections # <<>>
     THEN Join(StrippedTexts(root, transcript_sections))
     ELSE <<>>

te_container_selectors ==
  << Sel("div", "data-test-id", "content-container", ""),
     Sel("", "class", "paywall-content", ""),
     Sel("", "class", "sa-art", ""),
     Sel("article", "class", "sa-content", ""),
     Sel("", "class", "article-content", ""),
     Sel("", "id", "a-body", "") >>

RECURSIVE te_containers_from(_, _)
\* the for loop of extract_from_content_containers from selector number i on
te_containers_from(root, i) ==
  IF i > Len(te_container_selectors) THEN <<>>
  ELSE LET container == select_one(root, <<>>, te_container_selectors[i])
       IN IF container = None THEN te_containers_from(root, i + 1)
          ELSE IF is_premium_only(Text(NodeAt(root, container)))
          THEN te_containers_from(root, i + 1)
          ELSE IF filtered_paragraphs(root, container) # <<>>
          THEN Join(filtered_paragraphs(root, container))
          ELSE te_containers_from(root, i + 1)

te_extract_from_content_containers(root) == te_containers_from(root, 1)

RECURSIVE te_scripts_from(_, _)
\* the for loop of extract_from_scripts from script number i on
te_scripts_from(script_matches, i) ==
  IF i > Len(script_matches) THEN <<>>
  ELSE LET script == script_matches[i]
       IN IF json_search(script) /\ value_search(script, "content") # NoMatch
          THEN unescape(value_search(script, "content"))
          ELSE te_scripts_from(script_matches, i + 1)

te_extract_from_scripts(html) == te_scripts_from(script_findall(html, 1), 1)

te_extract_from_speaker_patterns(html) ==
  LET matches == speaker_findall(html)
  IN IF matches # <<>> /\ Len(matches) > 10
     THEN Join([m \in 1..Len(matches) |->
                  Strip(matches[m].speaker) \o <<R(":", 1), R(" ", 1)>> \o Strip(matches[m].text)])
     ELSE <<>>

\* "Method 5: Fallback to all paragraphs", filtered, and the failure text
te_fallback(root) ==
  LET kept == filtered_paragraphs(root, <<>>)
  IN IF kept # <<>> THEN Join(kept) ELSE <<R("Content extraction failed", 1)>>

\* method number k of extract_content
te_method(k, root, html) ==
  CASE k = 1 -> te_extract_from_transcript_sections(root)
    [] k = 2 -> te_extract_from_content_containers(root)
    [] k = 3 -> te_extract_from_scripts(html)
    [] k = 4 -> te_extract_from_speaker_patterns(html)

(***************************************************************************)
(* The documents                                                           *)
(***************************************************************************)
\* the number of top-level elements of a document
MaxElems == 2

P(s) == E("p", "", "", <<T(s)>>)

Premium == R("Make the most of Premium", 1)

RECURSIVE Segments(_)
\* k speaker segments <strong>name:</strong> text, the names all different
Segments(k) ==
  IF k = 0 THEN <<>>
  ELSE <<E("strong", "", "", <<T(<<R("a", k), R(":", 1)>>)>>), T(<<R(" ", 1), R("a", 50)>>)>>
       \o Segments(k - 1)

\* the text of a script: {"transcript": 1, fields}
Json(fields) ==
  <<R("{", 1), R(Q, 1), R("transcript", 1), R(Q, 1), R(":", 1), R("1", 1)>> \o fields \o <<R("}", 1)>>

\* , "key": "value"
Field(key, value) ==
  <<R(",", 1), R(Q, 1), R(key, 1), R(Q, 1), R(":", 1), R(" ", 1), R(Q, 1)>> \o value \o <<R(Q, 1)>>

Elements ==
  { E("div", "class", "sa-transcript", <<T(<<R(" ", 1), R("a", 300), R("\n", 1)>>)>>),
    E("div", "class", "transcript-text", <<>>),
    E("section", "data-id", "sa-transcript", <<T(A(499))>>),
    E("div", "data-test-id", "content-container",
      <<P(A(10)), P(<<R("SEEKING ALPHA", 1), R("a", 30)>>)>>),
    E("div", "class", "paywall-content", <<P(<<Premium, R("a", 71)>>)>>),
    E("div", "id", "a-body", <<P(<<Premium, R("a", 35)>>), P(A(20)), P(A(21))>>),
    E("article", "class", "sa-content", <<P(<<Premium, R("a", 34)>>), P(A(20)), P(A(21))>>),
    E("div", "class", "article-content",
      <<P(A(300)), P(<<R("seeking alpha", 1), R("a", 30)>>), P(<<R(" ", 1), R("a", 250), R(" ", 1)>>),
        P(<<R("a", 30), R("SEEKING ALPHA", 1)>>)>>),
    E("div", "class", "transcript-section", <<E("pre", "", "", <<T(A(501))>>)>>),
    E("h2", "", "", <<T(<<R("Earnings Call", 1), R(" ", 1), R("Transcript", 1)>>)>>),
    P(A(501)),
    P(A(5)),
    P(<<R("seeking alpha", 1), R("a", 30)>>),
    E("script", "", "", <<T(Json(Field("text", A(600)) \o Field("content", <<R(" ", 1), R("a", 250), R(BS, 1), R("n", 1), R("a", 249)>>)))>>),
    E("script", "", "", <<T(Json(Field("text", <<R("a", 300), R(BS, 1), R("n", 1), R("a", 300)>>)))>>),
    E("script", "", "", <<T(Json(Field("title", A(600))))>>),
    E("script", "", "", <<T(Json(Field("text", <<R("a", 600), R(BS, 1), R(Q, 1), R("a", 5)>>)))>>),
    E("pre", "", "", <<T(<<R("\n", 1), R("a", 501)>>)>>),
    E("pre", "", "", <<T(A(500))>>),
    E("pre", "", "", <<T(<<R("seeking alpha", 1), R("a", 600)>>)>>),
    E("div", "", "",
      <<E("h3", "", "", <<T(<<R("Transcript", 1)>>)>>), P(<<R(" ", 1), R("a", 300)>>),
        E("div", "", "", <<T(A(40))>>), P(A(250))>>),
    E("div", "", "", <<E("strong", "", "", <<T(<<R("Question-and-Answer", 1)>>)>>), T(A(100))>>),
    E("h2", "", "", <<T(<<R("Q&A", 1)>>)>>),
    E("div", "", "", Segments(10)),
    E("div", "", "", Segments(11)) }

Docs == UNION {[1..n -> Elements] : n \in 0..MaxElems}

\* elements the metadata selectors match, or nearly match
MetaElements ==
  { E("h1", "", "", <<T(<<R(" ", 1), R("a", 5), R("\n", 1)>>)>>),
    E("h1", "", "", <<>>),
    E("h1", "class", "title", <<T(A(8))>>),
    E("div", "data-test-id", "post-title", <<T(A(6))>>),
    E("p", "class", "title", <<T(A(7))>>),
    E("time", "", "", <<T(A(3))>>),
    E("span", "data-test-id", "post-date", <<T(A(2))>>),
    E("span", "class", "post-date", <<T(<<R(" ", 1), R("a", 4)>>)>>),
    E("div", "class", "sa-art-date", <<E("time", "", "", <<T(A(1))>>), T(A(12))>>),
    E("span", "data-test-id", "author-name", <<T(A(11))>>),
    E("a", "class", "author-link", <<T(A(9))>>),
    E("span", "class", "author-name", <<T(<<R("a", 10), R(" ", 1)>>)>>) }

FileDocs == UNION {[1..n -> MetaElements] : n \in 0..MaxElems}

(***************************************************************************)
(* extract_content, one step per method                                    *)
(***************************************************************************)

Unset == <<[c |-> "unset", n |-> 0]>>

\* no invocation has been recorded
NoRecord == [doc |-> None]

\* the number of worker threads (--parallel)
NumWorkers == 2

Workers == 1..NumWorkers

\* a worker thread without a task
Idle == [soup |-> Root(<<>>), html_content |-> <<>>, pc |-> "idle", k |-> 0,
         content |-> <<>>, result |-> Unset]

\* no thread pool
NoPool == links = <<>> /\ workers = [w \in Workers |-> Idle]

\* no download
NoDownload ==
  /\ max_articles = 0 /\ batch_size = 0 /\ downloaded = {} /\ files = {}
  /\ articles_downloaded = 0 /\ total_retries = 0
  /\ dl_links = <<>> /\ batch = <<>> /\ link = 0 /\ retry_count = 0 /\ success = FALSE
  /\ browser = FALSE
  /\ dl_pc = "idle"

\* no shared links table
NoTable ==
  /\ unique_index = FALSE /\ seekingalpha_links = <<>> /\ html_files = <<>>
  /\ failing = {} /\ unreadable = {} /\ store = <<>>
  /\ cd_batch_size = 0 /\ cd_links = <<>> /\ cd_pc = "idle"
  /\ ex_batch_size = 0 /\ ex_links = <<>> /\ ex_pc = "idle"

\* no link collection
NoCollector ==
  /\ max_links = 0 /\ site = <<>> /\ current_page = 0
  /\ links_collected = 0 /\ stored = {} /\ all_links = <<>>
  /\ lc_pc = "idle"

Failed == <<R("Content extraction failed", 1)>>

\* accepted, measuring the trimmed candidate
accepted_trimmed(c) == c # <<>> /\ StrLen(Strip(c)) > 500

\* "if content and len(content) > 500"
accepted(c) == c # <<>> /\ StrLen(c) > 500

Init ==
  /\ \E d \in Docs : soup = Root(d) /\ html_content = Serialize(Root(d))
  /\ pc = "method1"
  /\ content = <<>>
  /\ result = Unset
  /\ invoked = <<>>
  /\ title = Unset /\ date = Unset /\ author = Unset
  /\ seen = NoRecord
  /\ NoPool
  /\ NoCollector
  /\ NoDownload
  /\ NoTable

\* Method, going on to the next method also after an accepted output
Method_no_return(here, number, output, next) ==
  /\ pc = here
  /\ content' = output
  /\ invoked' = Append(invoked, number)
  /\ result' = (IF accepted(output) THEN output ELSE result)
  /\ pc' = next
  /\ UNCHANGED <<soup, html_content, rest>>

\* one method of the cascade: call it, return its content if accepted, else go on
Method(here, number, output, next) ==
  /\ pc = here
  /\ content' = output
  /\ invoked' = Append(invoked, number)
  /\ IF accepted(output)
     THEN result' = output /\ pc' = "done"
     ELSE result' = result /\ pc' = next
  /\ UNCHANGED <<soup, html_content, rest>>

Method1 == Method("method1", 1, extract_transcript_sections(soup), "method2")

Method2 == Method("method2", 2, extract_from_content_containers(soup), "method3")

Method3 == Method("method3", 3, extract_after_header_patterns(soup), "method4")

Method4 == Method("method4", 4, extract_from_scripts(html_content), "method5")

Method5 == Method("method5", 5, extract_from_pre_elements(soup), "method6")

Method6 == Method("method6", 6, extract_transcript_pattern(html_content), "fallback")

\* Fallback, returning what result held before when there is no paragraph
Fallback_stale ==
  /\ pc = "fallback"
  /\ invoked' = Append(invoked, 7)
  /\ IF select(soup, <<>>, <<Sel("p", "", "", "")>>) # <<>>
     THEN result' = all_paragraphs_text(soup)
     ELSE result' = result
  /\ pc' = "done"
  /\ UNCHANGED <<soup, html_content, content, rest>>

\* "If all else fails, try to get all paragraph text"
Fallback ==
  /\ pc = "fallback"
  /\ invoked' = Append(invoked, 7)
  /\ IF select(soup, <<>>, <<Sel("p", "", "", "")>>) # <<>>
     THEN result' = all_paragraphs_text(soup)
     ELSE result' = Failed
  /\ pc' = "done"
  /\ UNCHANGED <<soup, html_content, content, rest>>

Next ==
  \/ Method1
  \/ Method2
  \/ Method3
  \/ Method4
  \/ Method5
  \/ Method6
  \/ Fallback

Spec == Init /\ [][Next]_vars

(***************************************************************************)
(* extract_from_file: the metadata, then extract_content                   *)
(***************************************************************************)
InitFile ==
  /\ \E d \in FileDocs : soup = Root(d) /\ html_content = Serialize(Root(d))
  /\ pc = "title"
  /\ content = <<>>
  /\ result = Unset
  /\ invoked = <<>>
  /\ title = Unset /\ date = Unset /\ author = Unset
  /\ seen = NoRecord
  /\ NoPool
  /\ NoCollector
  /\ NoDownload
  /\ NoTable

ExtractTitle ==
  /\ pc = "title"
  /\ title' = extract_title(soup)
  /\ pc' = "date"
  /\ UNCHANGED <<soup, html_content, content, result, invoked, date, author, seen, others>>

ExtractDate ==
  /\ pc = "date"
  /\ date' = extract_date(soup)
  /\ pc' = "author"
  /\ UNCHANGED <<soup, html_content, content, result, invoked, title, author, seen, others>>

ExtractAuthor ==
  /\ pc = "author"
  /\ author' = extract_author(soup)
  /\ pc' = "method1"
  /\ UNCHANGED <<soup, html_content, content, result, invoked, title, date, seen, others>>

NextFile ==
  \/ ExtractTitle
  \/ ExtractDate
  \/ ExtractAuthor
  \/ Next

SpecFile == InitFile /\ [][NextFile]_vars

(***************************************************************************)
(* process_directory: extract_from_file on one file after another          *)
(***************************************************************************)
\* the files of the input directory: documents of at most one element
RepeatDocs ==
  {d \in Docs \cup FileDocs :
     /\ Len(d) <= 1
     /\ d # <<>> => d[1].tag \in {"h1", "p", "section", "time", "pre"}}

InitRepeat ==
  /\ \E d \in RepeatDocs : soup = Root(d) /\ html_content = Serialize(Root(d))
  /\ pc = "title"
  /\ content = <<>>
  /\ result = Unset
  /\ invoked = <<>>
  /\ title = Unset /\ date = Unset /\ author = Unset
  /\ seen = NoRecord
  /\ NoPool
  /\ NoCollector
  /\ NoDownload
  /\ NoTable

\* the next file of the loop: a new call of extract_from_file with new locals;
\* the caller still holds the previous result.  seen records one earlier
\* invocation and whether another document was processed since.
Again ==
  /\ pc = "done"
  /\ \E d \in RepeatDocs : soup' = Root(d) /\ html_content' = Serialize(Root(d))
  /\ pc' = "title"
  /\ content' = <<>>
  /\ invoked' = <<>>
  /\ title' = Unset /\ date' = Unset /\ author' = Unset
  /\ \E record \in BOOLEAN :
       seen' = IF seen = NoRecord
               THEN (IF record
                     THEN [doc |-> soup, title |-> title, date |-> date, author |-> author,
                           content |-> result, between |-> FALSE]
                     ELSE seen)
               ELSE [seen EXCEPT !.between = @ \/ soup # seen.doc]
  /\ UNCHANGED <<result, others>>

NextRepeat ==
  \/ NextFile
  \/ Again

SpecRepeat == InitRepeat /\ [][NextRepeat]_vars

(***************************************************************************)
(* transcript-extractor.py extract_transcripts: a batch of links handed to *)
(* a pool of worker threads, each running extract_single_transcript        *)
(***************************************************************************)
\* the number of links of a batch
MaxBatch == 2

\* the downloaded files of the links
WorkerDocs ==
  {d \in Docs :
     /\ Len(d) = 1
     /\ \/ d[1].tag = "script"
        \/ d[1].attr.v \in {"article-content", "sa-transcript", "transcript-section"}}

RECURSIVE te_extract_content_from(_, _, _)
\* extract_content from method number k on, in one thread
te_extract_content_from(k, root, html) ==
  IF k = 5 THEN te_fallback(root)
  ELSE LET c == te_method(k, root, html)
       IN IF accepted(c) THEN c ELSE te_extract_content_from(k + 1, root, html)

te_extract_content(root, html) == te_extract_content_from(1, root, html)

NoCascade ==
  /\ soup = Root(<<>>) /\ html_content = <<>>
  /\ pc = "idle"
  /\ content = <<>>
  /\ result = Unset
  /\ invoked = <<>>
  /\ title = Unset /\ date = Unset /\ author = Unset
  /\ seen = NoRecord

InitWorkers ==
  /\ NoCascade
  /\ links \in UNION {[1..n -> WorkerDocs] : n \in 1..MaxBatch}
  /\ workers = [w \in Workers |-> Idle]
  /\ NoCollector
  /\ NoDownload
  /\ NoTable

\* a thread of the pool takes the next submitted link and parses its file
Start(w) ==
  /\ workers[w].pc \in {"idle", "done"}
  /\ links # <<>>
  /\ workers' = [workers EXCEPT ![w] =
                   [soup |-> Root(Head(links)), html_content |-> Serialize(Root(Head(links))),
                    pc |-> "call", k |-> 1, content |-> <<>>, result |-> Unset]]
  /\ links' = Tail(links)
  /\ UNCHANGED <<cascade, file, collector, download, shared>>

\* WorkerCall, with content kept in the object the threads share
WorkerCall_shared(w) ==
  /\ workers[w].pc = "call"
  /\ workers[w].k <= 4
  /\ workers' = [v \in Workers |->
                   IF v = w
                   THEN [workers[w] EXCEPT
                           !.content = te_method(workers[w].k, workers[w].soup, workers[w].html_content),
                           !.pc = "test"]
                   ELSE [workers[v] EXCEPT
                           !.content = te_method(workers[w].k, workers[w].soup, workers[w].html_content)]]
  /\ UNCHANGED <<cascade, file, links, collector, download, shared>>

\* "content = self.extract_from_...(...)" of methods 1 to 4
WorkerCall(w) ==
  /\ workers[w].pc = "call"
  /\ workers[w].k <= 4
  /\ workers' = [workers EXCEPT ![w] =
                   [@ EXCEPT
                      !.content = te_method(workers[w].k, workers[w].soup, workers[w].html_content),
                      !.pc = "test"]]
  /\ UNCHANGED <<cascade, file, links, collector, download, shared>>

\* "if content and len(content) > 500: return content"
WorkerTest(w) ==
  /\ workers[w].pc = "test"
  /\ workers' = [workers EXCEPT ![w] =
                   IF accepted(workers[w].content)
                   THEN [@ EXCEPT !.result = workers[w].content, !.pc = "done"]
                   ELSE [@ EXCEPT !.k = @ + 1, !.pc = "call"]]
  /\ UNCHANGED <<cascade, file, links, collector, download, shared>>

\* method 5 and the return after it
WorkerFallback(w) ==
  /\ workers[w].pc = "call"
  /\ workers[w].k = 5
  /\ workers' = [workers EXCEPT ![w] =
                   [@ EXCEPT !.result = te_fallback(workers[w].soup), !.pc = "done"]]
  /\ UNCHANGED <<cascade, file, links, collector, download, shared>>

NextWorkers ==
  \/ \E w \in Workers : Start(w)
  \/ \E w \in Workers : WorkerCall(w)
  \/ \E w \in Workers : WorkerTest(w)
  \/ \E w \in Workers : WorkerFallback(w)

SpecWorkers == InitWorkers /\ [][NextWorkers]_vars

(***************************************************************************)
(* link-collector.py collect_links and unified.py extract_links: the       *)
(* author's pages are read one after another until max_links is reached    *)
(***************************************************************************)
\* the number of pages of the author
MaxPages == 2

\* the number of article links of one page
MaxPageLinks == 2

\* the urls of the articles
Urls == 1..(MaxPageLinks + 1)

\* the article links of one page, in page order
Pages == UNION {[1..n -> Urls] : n \in 0..MaxPageLinks}

\* --max-links: 0 when the option is not given
MaxLinks == 0..(MaxPageLinks + 1)

RECURSIVE store_links(_, _, _)
\* the for loop over the links of a page: db.store_link on each, which
\* inserts the url and returns True when the url is not in the table yet;
\* gives the table and the number of links stored
store_links(page, table, count) ==
  IF page = <<>> THEN [table |-> table, count |-> count]
  ELSE IF Head(page) \in table
       THEN store_links(Tail(page), table, count)
       ELSE store_links(Tail(page), table \cup {Head(page)}, count + 1)

InitLinks ==
  /\ NoCascade
  /\ NoPool
  /\ max_links \in MaxLinks
  /\ site \in UNION {[1..n -> Pages] : n \in 0..MaxPages}
  /\ current_page = 1
  /\ links_collected = 0
  /\ stored = {}
  /\ all_links = <<>>
  /\ lc_pc \in {"collect_links", "extract_links"}
  /\ NoDownload
  /\ NoTable

\* "if self.max_links and links_collected >= self.max_links"
enough(n) == max_links # 0 /\ n >= max_links

\* collect_links: the target is reached at the top of the loop
CollectStop ==
  /\ lc_pc = "collect_links"
  /\ enough(links_collected)
  /\ lc_pc' = "done"
  /\ UNCHANGED <<max_links, site, current_page, links_collected, stored, all_links>>
  /\ UNCHANGED <<cascade, file, pool, download, shared>>

\* collect_links: one page with links: every link of the page is stored,
\* the progress is updated and the loop goes to the next page
CollectPage ==
  /\ lc_pc = "collect_links"
  /\ ~ enough(links_collected)
  /\ current_page <= Len(site)
  /\ LET s == store_links(site[current_page], stored, 0)
     IN /\ stored' = s.table
        /\ links_collected' = links_collected + s.count
  /\ current_page' = current_page + 1
  /\ UNCHANGED <<max_links, site, all_links, lc_pc>>
  /\ UNCHANGED <<cascade, file, pool, download, shared>>

\* collect_links: the page cannot be loaded: "Continue to next page despite error"
CollectError ==
  /\ lc_pc = "collect_links"
  /\ ~ enough(links_collected)
  /\ current_page <= Len(site)
  /\ current_page' = current_page + 1
  /\ UNCHANGED <<max_links, site, links_collected, stored, all_links, lc_pc>>
  /\ UNCHANGED <<cascade, file, pool, download, shared>>

\* collect_links: past the last page: "no results found"
CollectEnd ==
  /\ lc_pc = "collect_links"
  /\ ~ enough(links_collected)
  /\ current_page > Len(site)
  /\ lc_pc' = "done"
  /\ UNCHANGED <<max_links, site, current_page, links_collected, stored, all_links>>
  /\ UNCHANGED <<cascade, file, pool, download, shared>>

\* extract_links: the target is reached at the top of the loop
ExtractStop ==
  /\ lc_pc = "extract_links"
  /\ enough(Len(all_links))
  /\ lc_pc' = "done"
  /\ UNCHANGED <<max_links, site, current_page, links_collected, stored, all_links>>
  /\ UNCHANGED <<cascade, file, pool, download, shared>>

\* extract_links: one page: all_links.extend(page_links), progress, next page
ExtractPage ==
  /\ lc_pc = "extract_links"
  /\ ~ enough(Len(all_links))
  /\ current_page <= Len(site)
  /\ all_links' = all_links \o site[current_page]
  /\ links_collected' = Len(all_links')
  /\ current_page' = current_page + 1
  /\ UNCHANGED <<max_links, site, stored, lc_pc>>
  /\ UNCHANGED <<cascade, file, pool, download, shared>>

\* extract_links: the page cannot be loaded
ExtractError ==
  /\ lc_pc = "extract_links"
  /\ ~ enough(Len(all_links))
  /\ current_page <= Len(site)
  /\ links_collected' = Len(all_links)
  /\ current_page' = current_page + 1
  /\ UNCHANGED <<max_links, site, stored, all_links, lc_pc>>
  /\ UNCHANGED <<cascade, file, pool, download, shared>>

\* extract_links: past the last page: "no results found"
ExtractEnd ==
  /\ lc_pc = "extract_links"
  /\ ~ enough(Len(all_links))
  /\ current_page > Len(site)
  /\ lc_pc' = "done"
  /\ UNCHANGED <<max_links, site, current_page, links_collected, stored, all_links>>
  /\ UNCHANGED <<cascade, file, pool, download, shared>>

NextLinks ==
  \/ CollectStop
  \/ CollectPage
  \/ CollectError
  \/ CollectEnd
  \/ ExtractStop
  \/ ExtractPage
  \/ ExtractError
  \/ ExtractEnd

SpecLinks == InitLinks /\ [][NextLinks]_vars

(***************************************************************************)
(* play.py download_content: batches of links not yet downloaded, each     *)
(* link tried up to max_retries times                                      *)
(***************************************************************************)
\* the number of rows of the links table
NumLinks == 2

\* the ids of the links, in the order of collected_at
LinkIds == 1..NumLinks

\* the failed downloads counted before the model stops counting
MaxTotalRetries == 4

max_retries == 3

RECURSIVE first_rows(_, _)
\* the first n elements of a sequence
first_rows(rows, n) ==
  IF n <= 0 \/ rows = <<>> THEN <<>>
  ELSE <<Head(rows)>> \o first_rows(Tail(rows), n - 1)

\* db.get_unprocessed_links(limit): the first rows with downloaded = 0
get_unprocessed_links(limit) ==
  first_rows(SelectSeqIdx([i \in LinkIds |-> i], LAMBDA i : i \notin downloaded, 1), limit)

\* min(a, b)
min(a, b) == IF a <= b THEN a ELSE b

\* current_batch_size, always the whole batch_size
current_batch_size_whole == batch_size

\* remaining_count and current_batch_size of lines 650-651
current_batch_size ==
  LET remaining_count == IF max_articles # 0 THEN max_articles - articles_downloaded
                         ELSE batch_size
  IN min(batch_size, IF max_articles # 0 THEN remaining_count ELSE batch_size)

InitPlay ==
  /\ NoCascade
  /\ NoPool
  /\ NoCollector
  /\ NoTable
  /\ max_articles \in 0..(NumLinks + 1)
  /\ batch_size \in 1..MaxBatch
  /\ downloaded \in SUBSET LinkIds
  /\ files \in SUBSET LinkIds
  /\ articles_downloaded = 0
  /\ total_retries = 0
  /\ dl_links = <<>>
  /\ batch = <<>>
  /\ link = 0
  /\ retry_count = 0
  /\ success = FALSE
  /\ browser = FALSE
  /\ dl_pc = "top"

\* "if max_articles and articles_downloaded >= max_articles: break"
LimitReached ==
  /\ dl_pc = "top"
  /\ max_articles # 0 /\ articles_downloaded >= max_articles
  /\ dl_pc' = "done"
  /\ UNCHANGED <<max_articles, batch_size, downloaded, files, articles_downloaded,
                 total_retries, batch, link, retry_count, success, browser>>
  /\ UNCHANGED <<dl_links, cascade, file, pool, collector, shared>>

\* the next batch is fetched; "if not links: break"
FetchBatch ==
  /\ dl_pc = "top"
  /\ ~ (max_articles # 0 /\ articles_downloaded >= max_articles)
  /\ dl_links' = get_unprocessed_links(current_batch_size)
  /\ batch' = dl_links'
  /\ link' = 0
  /\ dl_pc' = IF batch' = <<>> THEN "done" ELSE "for"
  /\ UNCHANGED <<max_articles, batch_size, downloaded, files, articles_downloaded,
                 total_retries, retry_count, success, browser>>
  /\ UNCHANGED <<cascade, file, pool, collector, shared>>

\* get_unprocessed_links fails and returns []: the loop ends
FetchError ==
  /\ dl_pc = "top"
  /\ ~ (max_articles # 0 /\ articles_downloaded >= max_articles)
  /\ dl_links' = <<>>
  /\ batch' = <<>>
  /\ link' = 0
  /\ dl_pc' = "done"
  /\ UNCHANGED <<max_articles, batch_size, downloaded, files, articles_downloaded,
                 total_retries, retry_count, success, browser>>
  /\ UNCHANGED <<cascade, file, pool, collector, shared>>

\* "for link in links": the file of the link exists already: marked and counted
FileExists ==
  /\ dl_pc = "for"
  /\ batch # <<>>
  /\ Head(batch) \in files
  /\ link' = Head(batch)
  /\ batch' = Tail(batch)
  /\ downloaded' = downloaded \cup {Head(batch)}
  /\ articles_downloaded' = articles_downloaded + 1
  /\ UNCHANGED <<max_articles, batch_size, files, total_retries, retry_count, success,
                 browser, dl_pc>>
  /\ UNCHANGED <<dl_links, cascade, file, pool, collector, shared>>

\* "for link in links": the link is to be downloaded: retry_count = 0
StartLink ==
  /\ dl_pc = "for"
  /\ batch # <<>>
  /\ Head(batch) \notin files
  /\ link' = Head(batch)
  /\ batch' = Tail(batch)
  /\ retry_count' = 0
  /\ success' = FALSE
  /\ dl_pc' = "while"
  /\ UNCHANGED <<max_articles, batch_size, downloaded, files, articles_downloaded,
                 total_retries, browser>>
  /\ UNCHANGED <<dl_links, cascade, file, pool, collector, shared>>

\* the loop condition, letting a link have one attempt more
attempting_le == retry_count <= max_retries /\ ~ success

\* "while retry_count < max_retries and not success"
attempting == retry_count < max_retries /\ ~ success

\* _init_browser does not give a browser: either launch() returned False, with
\* self.browser set to the launcher that failed (retry_count += 1), or it
\* raised before self.browser was set (retry_count and total_retries += 1);
\* then the finally block
InitBrowserFails ==
  /\ dl_pc = "while"
  /\ attempting
  /\ retry_count' = retry_count + 1
  /\ \E raised \in BOOLEAN :
       IF raised
       THEN /\ total_retries < MaxTotalRetries
            /\ total_retries' = total_retries + 1
            /\ browser' = browser
       ELSE /\ total_retries' = total_retries
            /\ browser' = TRUE
  /\ dl_pc' = "finally"
  /\ UNCHANGED <<max_articles, batch_size, downloaded, files, articles_downloaded,
                 batch, link, success>>
  /\ UNCHANGED <<dl_links, cascade, file, pool, collector, shared>>

\* _init_browser opens the browser
InitBrowser ==
  /\ dl_pc = "while"
  /\ attempting
  /\ browser' = TRUE
  /\ dl_pc' = "download"
  /\ UNCHANGED <<max_articles, batch_size, downloaded, files, articles_downloaded,
                 total_retries, batch, link, retry_count, success>>
  /\ UNCHANGED <<dl_links, cascade, file, pool, collector, shared>>

\* the page is saved: mark_link_downloaded, articles_downloaded += 1
DownloadSucceeds ==
  /\ dl_pc = "download"
  /\ success' = TRUE
  /\ files' = files \cup {link}
  /\ downloaded' = downloaded \cup {link}
  /\ articles_downloaded' = articles_downloaded + 1
  /\ dl_pc' = "finally"
  /\ UNCHANGED <<max_articles, batch_size, total_retries, batch, link, retry_count, browser>>
  /\ UNCHANGED <<dl_links, cascade, file, pool, collector, shared>>

\* the page is not saved, or an exception: retry_count and total_retries += 1
DownloadFails ==
  /\ dl_pc = "download"
  /\ total_retries < MaxTotalRetries
  /\ retry_count' = retry_count + 1
  /\ total_retries' = total_retries + 1
  /\ dl_pc' = "finally"
  /\ UNCHANGED <<max_articles, batch_size, downloaded, files, articles_downloaded,
                 batch, link, success, browser>>
  /\ UNCHANGED <<dl_links, cascade, file, pool, collector, shared>>

\* the browser closed after a successful download only
CloseBrowser_on_success ==
  /\ dl_pc = "finally"
  /\ browser' = (browser /\ ~ success)
  /\ dl_pc' = "while"
  /\ UNCHANGED <<max_articles, batch_size, downloaded, files, articles_downloaded,
                 total_retries, batch, link, retry_count, success>>
  /\ UNCHANGED <<dl_links, cascade, file, pool, collector, shared>>

\* "finally: self.close_browser()"
CloseBrowser ==
  /\ dl_pc = "finally"
  /\ browser' = FALSE
  /\ dl_pc' = "while"
  /\ UNCHANGED <<max_articles, batch_size, downloaded, files, articles_downloaded,
                 total_retries, batch, link, retry_count, success>>
  /\ UNCHANGED <<dl_links, cascade, file, pool, collector, shared>>

\* the while loop of the link ends: success, or max_retries attempts
LinkOver ==
  /\ dl_pc = "while"
  /\ ~ attempting
  /\ dl_pc' = "for"
  /\ UNCHANGED <<max_articles, batch_size, downloaded, files, articles_downloaded,
                 total_retries, batch, link, retry_count, success, browser>>
  /\ UNCHANGED <<dl_links, cascade, file, pool, collector, shared>>

\* the batch is over: "if total_retries > articles_downloaded * 2" asks the operator
BatchOver ==
  /\ dl_pc = "for"
  /\ batch = <<>>
  /\ dl_pc' = IF total_retries > articles_downloaded * 2 THEN "prompt" ELSE "top"
  /\ UNCHANGED <<max_articles, batch_size, downloaded, files, articles_downloaded,
                 total_retries, batch, link, retry_count, success, browser>>
  /\ UNCHANGED <<dl_links, cascade, file, pool, collector, shared>>

\* input("Continue downloading? (y/n): ")
Answer ==
  /\ dl_pc = "prompt"
  /\ \E y \in BOOLEAN : dl_pc' = IF y THEN "top" ELSE "done"
  /\ UNCHANGED <<max_articles, batch_size, downloaded, files, articles_downloaded,
                 total_retries, batch, link, retry_count, success, browser>>
  /\ UNCHANGED <<dl_links, cascade, file, pool, collector, shared>>

NextPlay ==
  \/ LimitReached
  \/ FetchBatch
  \/ FetchError
  \/ FileExists
  \/ StartLink
  \/ InitBrowserFails
  \/ InitBrowser
  \/ DownloadSucceeds
  \/ DownloadFails
  \/ CloseBrowser
  \/ LinkOver
  \/ BatchOver
  \/ Answer

SpecPlay == InitPlay /\ [][NextPlay]_vars

(***************************************************************************)
(* The links table shared by link-collector.py, content-downloader.py and  *)
(* transcript-extractor.py                                                 *)
(***************************************************************************)

\* the number of article urls of the site
NumUrls == 2

\* the rows the table holds before the model stops collecting
MaxRows == 2

TableUrls == 1..NumUrls

\* the two collector processes
Collectors == {1, 2}

\* the title the site lists an article under: the titles of the first two
\* articles differ only after their 50th character
TitleOf(url) ==
  CASE url = 1 -> <<R("a", 50), R("b", 1)>>
    [] url = 2 -> <<R("a", 50), R("c", 1)>>
    [] OTHER -> <<R("a", url), R(" ", 1), R("b", 1)>>

\* c.isalnum()
isalnum(c) == c \in {"a", "b", "c"}

\* ''.join(c if c.isalnum() else '_' for c in title)
safe_title(t) ==
  [i \in 1..Len(t) |-> R(IF isalnum(t[i].c) THEN t[i].c ELSE "_", t[i].n)]

RECURSIVE Take(_, _)
\* s[:n], for a text of one-character chunks
Take(s, n) ==
  IF s = <<>> \/ n <= 0 THEN <<>>
  ELSE IF Head(s).n >= n THEN <<R(Head(s).c, n)>>
  ELSE <<Head(s)>> \o Take(Tail(s), n - Head(s).n)

\* filename = f"{safe_title[:50]}.html"
html_filename(t) == Take(safe_title(t), 50) \o <<R(".html", 1)>>

\* the names the files of the articles can have
Filenames == {html_filename(TitleOf(u)) : u \in TableUrls}

\* INSERT INTO seekingalpha_links (title, url): the defaults of the other columns
NewRow(t, url) ==
  [title |-> t, url |-> url, downloaded |-> FALSE, download_time |-> 0,
   extracted |-> FALSE]

\* the ids of the table: IDENTITY(1,1), in the order of collected_at
RowIds == 1..Len(seekingalpha_links)

\* SELECT COUNT(*) FROM seekingalpha_links WHERE url = ?
count_url(url) == Cardinality({i \in RowIds : seekingalpha_links[i].url = url})

\* GETDATE(): later than every time stored
getdate ==
  LET times == {seekingalpha_links[i].download_time : i \in RowIds} \cup {0}
  IN 1 + CHOOSE t \in times : \A u \in times : u <= t

RECURSIVE order_by_download_time(_)
\* ORDER BY download_time
order_by_download_time(ids) ==
  IF ids = {} THEN <<>>
  ELSE LET first == CHOOSE i \in ids : \A j \in ids :
                      \/ seekingalpha_links[i].download_time < seekingalpha_links[j].download_time
                      \/ /\ seekingalpha_links[i].download_time = seekingalpha_links[j].download_time
                         /\ i <= j
       IN <<first>> \o order_by_download_time(ids \ {first})

\* content-downloader.py get_unprocessed_links(limit): WHERE downloaded = 0
\* ORDER BY collected_at
cd_get_unprocessed_links(limit) ==
  first_rows(SelectSeqIdx([i \in RowIds |-> i],
                          LAMBDA i : ~ seekingalpha_links[i].downloaded, 1), limit)

\* the query without "downloaded = 1"
get_downloaded_links_any(limit) ==
  first_rows(order_by_download_time({i \in RowIds : ~ seekingalpha_links[i].extracted}),
             limit)

\* get_downloaded_links(limit): WHERE downloaded = 1 AND extracted = 0
\* ORDER BY download_time
get_downloaded_links(limit) ==
  first_rows(order_by_download_time({i \in RowIds :
                                       /\ seekingalpha_links[i].downloaded
                                       /\ ~ seekingalpha_links[i].extracted}),
             limit)

\* mark_link_downloaded(link_id): SET downloaded = 1, download_time = GETDATE()
mark_link_downloaded(id) ==
  [seekingalpha_links EXCEPT ![id] =
     [seekingalpha_links[id] EXCEPT !.downloaded = TRUE, !.download_time = getdate]]

\* mark_link_extracted(link_id): SET extracted = 1
mark_link_extracted(id) ==
  [seekingalpha_links EXCEPT ![id] = [seekingalpha_links[id] EXCEPT !.extracted = TRUE]]

\* os.path.exists(filepath)
exists(filename) == html_files[filename] # 0

\* a collector outside store_link
NoCall == [pc |-> "idle", url |-> 0, count |-> 0]

\* the table is new: db-setup.py made it, with the unique index on url, or
\* initialize_tables of link-collector.py did, without an index
InitTable ==
  /\ NoCascade
  /\ title = Unset /\ date = Unset /\ author = Unset
  /\ seen = NoRecord
  /\ NoPool
  /\ NoCollector
  /\ NoDownload
  /\ unique_index \in BOOLEAN
  /\ seekingalpha_links = <<>>
  /\ html_files = [f \in Filenames |-> 0]
  /\ failing \in SUBSET TableUrls
  /\ unreadable \in SUBSET TableUrls
  /\ store = [p \in Collectors |-> NoCall]
  /\ cd_batch_size \in 1..MaxBatch
  /\ cd_links = <<>>
  /\ cd_pc = "poll"
  /\ ex_batch_size \in 1..MaxBatch
  /\ ex_links = <<>>
  /\ ex_pc = "poll"

\* store_link(title, url) of collector p: SELECT COUNT(*) ... WHERE url = ?
StoreSelect(p) ==
  /\ store[p].pc = "idle"
  /\ Len(seekingalpha_links) + Cardinality({q \in Collectors : store[q].pc = "selected"})
       < MaxRows
  /\ \E url \in TableUrls :
       store' = [store EXCEPT ![p] = [pc |-> "selected", url |-> url,
                                      count |-> count_url(url)]]
  /\ UNCHANGED <<unique_index, seekingalpha_links, html_files, failing, unreadable,
                 cd_batch_size, cd_links, cd_pc, ex_batch_size, ex_links, ex_pc>>
  /\ UNCHANGED <<cascade, file, pool, collector, download>>

\* "if self.cursor.fetchone()[0] > 0: return False"
StoreExists(p) ==
  /\ store[p].pc = "selected"
  /\ store[p].count > 0
  /\ store' = [store EXCEPT ![p] = NoCall]
  /\ UNCHANGED <<unique_index, seekingalpha_links, html_files, failing, unreadable,
                 cd_batch_size, cd_links, cd_pc, ex_batch_size, ex_links, ex_pc>>
  /\ UNCHANGED <<cascade, file, pool, collector, download>>

\* INSERT INTO seekingalpha_links (title, url); commit; return True. With the
\* unique index an INSERT of a url the table holds raises: rollback, return False
StoreInsert(p) ==
  /\ store[p].pc = "selected"
  /\ store[p].count = 0
  /\ IF unique_index /\ count_url(store[p].url) > 0
     THEN /\ seekingalpha_links' = seekingalpha_links
          /\ store' = [store EXCEPT ![p] = NoCall]
     ELSE /\ seekingalpha_links' =
               Append(seekingalpha_links, NewRow(TitleOf(store[p].url), store[p].url))
          /\ store' = [store EXCEPT ![p] = NoCall]
  /\ UNCHANGED <<unique_index, html_files, failing, unreadable,
                 cd_batch_size, cd_links, cd_pc, ex_batch_size, ex_links, ex_pc>>
  /\ UNCHANGED <<cascade, file, pool, collector, download>>

\* download_content: links = get_unprocessed_links(batch_size); without links
\* it sleeps and asks again
CdFetch ==
  /\ cd_pc = "poll"
  /\ cd_links' = cd_get_unprocessed_links(cd_batch_size)
  /\ cd_pc' = IF cd_links' = <<>> THEN "poll" ELSE "for"
  /\ UNCHANGED <<unique_index, seekingalpha_links, html_files, failing, unreadable, store,
                 cd_batch_size, ex_batch_size, ex_links, ex_pc>>
  /\ UNCHANGED <<cascade, file, pool, collector, download>>

\* download_single_article: "if os.path.exists(filepath): mark_link_downloaded"
CdFileExists ==
  /\ cd_pc = "for"
  /\ cd_links # <<>>
  /\ exists(html_filename(seekingalpha_links[Head(cd_links)].title))
  /\ seekingalpha_links' = mark_link_downloaded(Head(cd_links))
  /\ cd_links' = Tail(cd_links)
  /\ UNCHANGED <<unique_index, html_files, failing, unreadable, store,
                 cd_batch_size, cd_pc, ex_batch_size, ex_links, ex_pc>>
  /\ UNCHANGED <<cascade, file, pool, collector, download>>

\* download_single_article: driver.get(url), the page written to the file,
\* mark_link_downloaded
CdDownload ==
  /\ cd_pc = "for"
  /\ cd_links # <<>>
  /\ LET row == seekingalpha_links[Head(cd_links)]
     IN /\ ~ exists(html_filename(row.title))
        /\ row.url \notin failing
        /\ html_files' = [html_files EXCEPT ![html_filename(row.title)] = row.url]
  /\ seekingalpha_links' = mark_link_downloaded(Head(cd_links))
  /\ cd_links' = Tail(cd_links)
  /\ UNCHANGED <<unique_index, failing, unreadable, store,
                 cd_batch_size, cd_pc, ex_batch_size, ex_links, ex_pc>>
  /\ UNCHANGED <<cascade, file, pool, collector, download>>

\* download_single_article: driver.get(url) raises: return False
CdFails ==
  /\ cd_pc = "for"
  /\ cd_links # <<>>
  /\ LET row == seekingalpha_links[Head(cd_links)]
     IN /\ ~ exists(html_filename(row.title))
        /\ row.url \in failing
  /\ cd_links' = Tail(cd_links)
  /\ UNCHANGED <<unique_index, seekingalpha_links, html_files, failing, unreadable, store,
                 cd_batch_size, cd_pc, ex_batch_size, ex_links, ex_pc>>
  /\ UNCHANGED <<cascade, file, pool, collector, download>>

\* the for loop of download_content is over: back to "while running"
CdBatchOver ==
  /\ cd_pc = "for"
  /\ cd_links = <<>>
  /\ cd_pc' = "poll"
  /\ UNCHANGED <<unique_index, seekingalpha_links, html_files, failing, unreadable, store,
                 cd_batch_size, cd_links, ex_batch_size, ex_links, ex_pc>>
  /\ UNCHANGED <<cascade, file, pool, collector, download>>

\* extract_transcripts: links = get_downloaded_links(batch_size); without
\* links it sleeps and asks again
ExFetch ==
  /\ ex_pc = "poll"
  /\ ex_links' = get_downloaded_links(ex_batch_size)
  /\ ex_pc' = IF ex_links' = <<>> THEN "poll" ELSE "for"
  /\ UNCHANGED <<unique_index, seekingalpha_links, html_files, failing, unreadable, store,
                 cd_batch_size, cd_links, cd_pc, ex_batch_size>>
  /\ UNCHANGED <<cascade, file, pool, collector, download>>

\* "if self.extract_single_transcript(link): mark_link_extracted(link['id'])"
ExExtract ==
  /\ ex_pc = "for"
  /\ ex_links # <<>>
  /\ LET row == seekingalpha_links[Head(ex_links)]
     IN /\ exists(html_filename(row.title))
        /\ row.url \notin unreadable
  /\ seekingalpha_links' = mark_link_extracted(Head(ex_links))
  /\ ex_links' = Tail(ex_links)
  /\ UNCHANGED <<unique_index, html_files, failing, unreadable, store,
                 cd_batch_size, cd_links, cd_pc, ex_batch_size, ex_pc>>
  /\ UNCHANGED <<cascade, file, pool, collector, download>>

\* extract_single_transcript returns False: no HTML file, or an exception
ExFails ==
  /\ ex_pc = "for"
  /\ ex_links # <<>>
  /\ LET row == seekingalpha_links[Head(ex_links)]
     IN \/ ~ exists(html_filename(row.title))
        \/ row.url \in unreadable
  /\ ex_links' = Tail(ex_links)
  /\ UNCHANGED <<unique_index, seekingalpha_links, html_files, failing, unreadable, store,
                 cd_batch_size, cd_links, cd_pc, ex_batch_size, ex_pc>>
  /\ UNCHANGED <<cascade, file, pool, collector, download>>

\* the for loop of extract_transcripts is over: back to "while running"
ExBatchOver ==
  /\ ex_pc = "for"
  /\ ex_links = <<>>
  /\ ex_pc' = "poll"
  /\ UNCHANGED <<unique_index, seekingalpha_links, html_files, failing, unreadable, store,
                 cd_batch_size, cd_links, cd_pc, ex_batch_size, ex_links>>
  /\ UNCHANGED <<cascade, file, pool, collector, download>>

\* the loop of content-downloader.py
CdNext == CdFetch \/ CdFileExists \/ CdDownload \/ CdFails \/ CdBatchOver

\* the loop of transcript-extractor.py
ExNext == ExFetch \/ ExExtract \/ ExFails \/ ExBatchOver

NextTable ==
  \/ \E p \in Collectors : StoreSelect(p)
  \/ \E p \in Collectors : StoreExists(p)
  \/ \E p \in Collectors : StoreInsert(p)
  \/ CdFetch
  \/ CdFileExists
  \/ CdDownload
  \/ CdFails
  \/ CdBatchOver
  \/ ExFetch
  \/ ExExtract
  \/ ExFails
  \/ ExBatchOver

SpecTable == InitTable /\ [][NextTable]_vars

\* the two polling loops keep running: each is a process of its own that
\* takes its next step whenever it has one
SpecTableFair == SpecTable /\ WF_vars(CdNext) /\ WF_vars(ExNext)

(***************************************************************************)
(* Properties                                                              *)
(***************************************************************************)

\* what method number j returns on the document, by itself
Output(j) ==
  CASE j = 1 -> extract_transcript_sections(soup)
    [] j = 2 -> extract_from_content_containers(soup)
    [] j = 3 -> extract_after_header_patterns(soup)
    [] j = 4 -> extract_from_scripts(html_content)
    [] j = 5 -> extract_from_pre_elements(soup)
    [] j = 6 -> extract_transcript_pattern(html_content)

\* the method called last
Last == invoked[Len(invoked)]

\* the paragraph elements of the document, in document order
ParagraphPaths ==
  LET all == Below(soup, <<>>)
  IN SelectSeqIdx(all, LAMBDA i : NodeAt(soup, all[i]).tag = "p", 1)

\* the trimmed texts over 20 characters of the paragraphs of the document
KeptByFallback ==
  LET paths == ParagraphPaths
      texts == [i \in 1..Len(paths) |-> Strip(Text(NodeAt(soup, paths[i])))]
  IN SelectSeqIdx(texts, LAMBDA i : StrLen(texts[i]) >= 21, 1)

\* C1: the content the cascade returns is never the empty string; when no
\* strategy is accepted and the fallback keeps no paragraph, it is the
\* sentinel "Content extraction failed".
C1_ContentNeverEmpty ==
  pc = "done" =>
    /\ result # <<>>
    /\ (Last = 7 /\ KeptByFallback = <<>>) => result = Failed

\* C2: the six strategies are called in their order, and the cascade returns
\* the output of the lowest-numbered strategy whose output passes the gate;
\* no strategy after the accepted one, and not the fallback, is called.
C2_OrderAndShortCircuit ==
  /\ \A i \in 1..Len(invoked) : invoked[i] = i
  /\ pc = "done" =>
       /\ \A j \in 1..6 : j < Last => ~ accepted(Output(j))
       /\ Last <= 6 => accepted(Output(Last)) /\ result = Output(Last)
       /\ (\E j \in 1..6 : accepted(Output(j))) => Last <= 6

\* C2 witness: method 2 was accepted although method 5 would pass as well
C2_Witness ==
  /\ pc = "done" /\ invoked = <<1, 2>>
  /\ result = Output(2)
  /\ accepted(Output(5))

\* a strategy has just been called and its output is in content
JustCalled == invoked # <<>> /\ Last <= 6

\* the output just produced was returned as the final content
Returned == pc = "done" /\ result = content

\* C3 as stated: a candidate is accepted if and only if its length after
\* trimming leading and trailing white space exceeds 500.
C3_TrimmedGate ==
  JustCalled => (Returned <=> StrLen(Strip(content)) > 500)

\* C3 amended: a candidate is accepted if and only if its length as the
\* strategy returned it, white space at its ends included, exceeds 500.
C3_UntrimmedGate ==
  JustCalled =>
    /\ Returned <=> StrLen(content) >= 501
    /\ ~ Returned => pc = (CASE Last = 1 -> "method2" [] Last = 2 -> "method3"
                             [] Last = 3 -> "method4" [] Last = 4 -> "method5"
                             [] Last = 5 -> "method6" [] Last = 6 -> "fallback")

\* C3 witness: a candidate over 500 only by the white space at its start is accepted
C3_Witness ==
  /\ JustCalled /\ Returned
  /\ StrLen(content) > 500
  /\ StrLen(Strip(content)) <= 500

\* the transcript-section marker elements of the document, in document order
MarkerPaths ==
  LET all == Below(soup, <<>>)
      markers == { [k |-> "class", v |-> "transcript-section"], [k |-> "class", v |-> "transcript-text"],
                   [k |-> "class", v |-> "sa-transcript"], [k |-> "data-id", v |-> "sa-transcript"],
                   [k |-> "id", v |-> "sa-transcript"] }
  IN SelectSeqIdx(all, LAMBDA i : NodeAt(soup, all[i]).attr \in markers, 1)

\* the trimmed texts of the marker elements, joined with blank lines
MarkerTexts ==
  LET paths == MarkerPaths
  IN Join([i \in 1..Len(paths) |-> Strip(Text(NodeAt(soup, paths[i])))])

\* C4: when marker elements are present with combined trimmed text over 500,
\* the cascade returns the trimmed texts of the marker elements, in document
\* order, joined with blank lines, whatever the other strategies produce.
C4_MarkerSectionsVerbatim ==
  LET texts == MarkerTexts
  IN (pc = "done" /\ MarkerPaths # <<>> /\ StrLen(Strip(texts)) > 500) =>
       /\ result = texts
       /\ invoked = <<1>>

\* C4 witness: two marker blocks A and B gave A, blank line, B, and a later
\* strategy had an acceptable output of its own
C4_Witness ==
  /\ pc = "done"
  /\ Len(MarkerPaths) = 2
  /\ result = A(499) \o Sep \o A(501)
  /\ accepted(Output(5))

\* C5: when no strategy passes the gate, the cascade returns the trimmed
\* texts of the paragraphs of the document over 20 characters, in document
\* order, joined with blank lines: no minimum length, no denylist.
C5_FallbackParagraphs ==
  LET kept == KeptByFallback
  IN (pc = "done" /\ kept # <<>> /\ \A j \in 1..6 : ~ accepted(Output(j))) =>
       /\ result = Join(kept)
       /\ invoked = <<1, 2, 3, 4, 5, 6, 7>>

\* C5 witness: the fallback returned under 500 characters, a paragraph with
\* "seeking alpha" among them
C5_Witness ==
  /\ pc = "done" /\ Last = 7
  /\ Len(KeptByFallback) = 2
  /\ Contains(result, "seeking alpha")
  /\ result = Join(KeptByFallback)
  /\ StrLen(result) < 500

\* method 2 has just been called and its output is in content
AfterMethod2 == invoked = <<1, 2>>

\* the elements a container selector matches, one per selector that matches, in selector order
FoundContainers ==
  LET hits == [i \in 1..Len(container_selectors) |-> select_one(soup, <<>>, container_selectors[i])]
  IN SelectSeqIdx(hits, LAMBDA i : hits[i] # None, 1)

Teaser(path) ==
  /\ Contains(Text(NodeAt(soup, path)), "Make the most of Premium")
  /\ StrLen(Text(NodeAt(soup, path))) <= 99

\* the paragraphs of a container that pass the length and denylist filter
Survivors(path) ==
  LET all == Below(NodeAt(soup, path), path)
      ps == SelectSeqIdx(all, LAMBDA i : NodeAt(soup, all[i]).tag = "p", 1)
      texts == [i \in 1..Len(ps) |-> Strip(Text(NodeAt(soup, ps[i])))]
      Boilerplate(t) == \E m \in 1..Len(t) :
         LowerChunk(t[m].c) \in {"disclosure:", "disclosure :", "©", "all rights reserved",
                                  "seeking alpha", "editor's note", "make the most of premium"}
  IN SelectSeqIdx(texts, LAMBDA i : StrLen(texts[i]) > 20 /\ ~ Boilerplate(texts[i]), 1)

\* the containers found that are not paywall teasers
Usable ==
  LET found == FoundContainers
  IN SelectSeqIdx(found, LAMBDA i : ~ Teaser(found[i]), 1)

\* the usable containers that keep at least one paragraph
Fruitful ==
  LET usable == Usable
  IN SelectSeqIdx(usable, LAMBDA i : Survivors(usable[i]) # <<>>, 1)

\* C6 as stated: when the first container that is not a paywall teaser keeps no
\* paragraph, method 2 returns the empty string.
C6_FirstContainerOnly ==
  LET usable == Usable
  IN (AfterMethod2 /\ usable # <<>> /\ Survivors(usable[1]) = <<>>) =>
       content = <<>> /\ pc = "method3"

\* C6 amended: when the first container that is not a paywall teaser keeps no
\* paragraph, method 2 goes on to the containers of the later selectors and
\* returns the survivors of the first that keeps any; it returns the empty
\* string, and the cascade goes to method 3, only when no container keeps a
\* paragraph.  The filter is never relaxed.
C6_NextContainerTried ==
  LET usable == Usable
      fruitful == Fruitful
  IN (AfterMethod2 /\ usable # <<>> /\ Survivors(usable[1]) = <<>>) =>
       /\ fruitful # <<>> => content = Join(Survivors(fruitful[1]))
       /\ fruitful = <<>> => content = <<>> /\ pc = "method3"

\* C6 witness: the first usable container kept nothing and the output came from a later one
C6_Witness ==
  LET usable == Usable
      fruitful == Fruitful
  IN /\ AfterMethod2 /\ usable # <<>> /\ Survivors(usable[1]) = <<>>
     /\ fruitful # <<>>
     /\ content = Join(Survivors(fruitful[1]))
     /\ content # <<>>

\* C7: a container is skipped exactly when its text contains "Make the most
\* of Premium" and is under 100 characters long; a container with the phrase
\* and 100 characters or more is accepted and its paragraphs filtered.
C7_TeaserSkippedUnder100 ==
  LET found == FoundContainers
  IN (AfterMethod2 /\ Len(found) = 1) =>
       LET container == NodeAt(soup, found[1])
           short == StrLen(Text(container)) < 100
           phrase == Contains(Text(container), "Make the most of Premium")
       IN /\ (phrase /\ short) => content = <<>>
          /\ ~ (phrase /\ short) => content = Join(Survivors(found[1]))

\* C7 witness: a container of exactly 100 characters with the phrase was
\* accepted, and its paragraph over 20 characters returned
C7_Witness ==
  LET found == FoundContainers
  IN /\ AfterMethod2 /\ Len(found) = 1
     /\ Contains(Text(NodeAt(soup, found[1])), "Make the most of Premium")
     /\ StrLen(Text(NodeAt(soup, found[1]))) = 100
     /\ content = A(21)

\* C8: in an accepted container a paragraph is kept if and only if its
\* trimmed text exceeds 20 characters and contains, case-insensitively, none
\* of the seven denylist substrings; the survivors keep document order.
C8_ParagraphFilter ==
  LET usable == Usable
  IN (AfterMethod2 /\ usable # <<>> /\ Survivors(usable[1]) # <<>>) =>
       /\ content = Join(Survivors(usable[1]))
       /\ ~ Contains(content, "SEEKING ALPHA")
       /\ ~ Contains(content, "seeking alpha")
       /\ \A m \in 1..Len(content) : content[m].c = "a" => content[m].n > 20

\* C8 witness: of four paragraphs the one with "seeking alpha" and the one
\* with "SEEKING ALPHA" were dropped, the other two kept in their order
C8_Witness ==
  LET usable == Usable
  IN /\ AfterMethod2 /\ Len(usable) = 1
     /\ Contains(Text(NodeAt(soup, usable[1])), "seeking alpha")
     /\ Contains(Text(NodeAt(soup, usable[1])), "SEEKING ALPHA")
     /\ content = A(300) \o Sep \o A(250)

\* the speaker segments of the document, in document order: a <strong>
\* without attributes holding "name:", followed by text
SpeakerLines ==
  LET all == Below(soup, <<>>)
      Next_(path) == NodeAt(soup, parent(path)).kids[path[Len(path)] + 1]
      Segment(path) ==
        LET node == NodeAt(soup, path)
        IN /\ node.tag = "strong" /\ node.attr = NoAttr
           /\ Len(node.kids) = 1 /\ node.kids[1].tag = "#text"
           /\ Len(node.kids[1].text) > 1
           /\ \A m \in 1..Len(node.kids[1].text) :
                 (node.kids[1].text[m].c = ":") <=> (m = Len(node.kids[1].text))
           /\ path[Len(path)] < Len(NodeAt(soup, parent(path)).kids)
           /\ Next_(path).tag = "#text"
      segs == SelectSeqIdx(all, LAMBDA i : Segment(all[i]), 1)
  IN [m \in 1..Len(segs) |->
        Strip(RStrip(SubSeq(Text(NodeAt(soup, segs[m])), 1, Len(Text(NodeAt(soup, segs[m]))) - 1)))
        \o <<R(":", 1), R(" ", 1)>> \o Strip(Next_(segs[m]).text)]

\* method 6 has just been called and its output is in content
AfterMethod6 == invoked = <<1, 2, 3, 4, 5, 6>>

\* C9: with 10 or fewer speaker segments method 6 returns the empty string;
\* with 11 or more it returns one line "name: text" per segment, in document
\* order, joined with blank lines.
C9_SpeakerThreshold ==
  AfterMethod6 =>
    LET lines == SpeakerLines
    IN /\ Len(lines) <= 10 => content = <<>>
       /\ Len(lines) >= 11 => content = Join(lines)

\* C9 witness: exactly 11 segments gave 11 lines, the first from the first segment
C9_Witness ==
  /\ AfterMethod6
  /\ Len(SpeakerLines) = 11
  /\ Cardinality({m \in 1..Len(content) : content[m].c = "\n"}) = 10
  /\ SubSeq(content, 1, 4) = <<R("a", 11), R(":", 1), R(" ", 1), R("a", 50)>>

\* method 4 has just been called and its output is in content
AfterMethod4 == invoked = <<1, 2, 3, 4>>

\* the texts of the script elements of the document, in document order
ScriptTexts ==
  LET all == Below(soup, <<>>)
      scripts == SelectSeqIdx(all, LAMBDA i : NodeAt(soup, all[i]).tag = "script", 1)
  IN [i \in 1..Len(scripts) |-> Text(NodeAt(soup, scripts[i]))]

\* a script text with the key "transcript" inside braces and a "content" or "text" value
HasTranscriptValue(script) ==
  /\ json_search(script)
  /\ value_search(script, "content") # NoMatch \/ value_search(script, "text") # NoMatch

\* v with every \n (backslash, n) made a newline and nothing else changed
Decoded(v) ==
  LET escape(i) == v[i].c = BS /\ i < Len(v) /\ v[i + 1].c = "n"
      escaped(i) == i > 1 /\ v[i].c = "n" /\ v[i - 1].c = BS
      w == [i \in 1..Len(v) |-> IF escape(i) THEN R("\n", 1) ELSE v[i]]
  IN SelectSeqIdx(w, LAMBDA i : ~ escaped(i), 1)

\* C10: method 4 returns the value of the first script block, in document
\* order, that has the key "transcript" and a "content" or "text" value, with
\* \n unescaped; "content" is preferred to "text" of the same block, and no
\* later block contributes.
C10_FirstScriptValue ==
  AfterMethod4 =>
    LET scripts == ScriptTexts
        good == {i \in 1..Len(scripts) : HasTranscriptValue(scripts[i])}
    IN /\ good = {} => content = <<>>
       /\ good # {} =>
            LET script == scripts[Least(good)]
            IN content = Decoded(IF value_search(script, "content") # NoMatch
                                 THEN value_search(script, "content")
                                 ELSE value_search(script, "text"))

\* C10 witness: the first block had the key "transcript" but no value; the
\* second had a "text" value and, after it, a "content" value, which was
\* returned with its \n made a newline
C10_Witness ==
  /\ AfterMethod4
  /\ Len(ScriptTexts) = 2
  /\ json_search(ScriptTexts[1]) /\ ~ HasTranscriptValue(ScriptTexts[1])
  /\ value_search(ScriptTexts[2], "text") = A(600)
  /\ content = <<R(" ", 1), R("a", 250), R("\n", 1), R("a", 249)>>

\* method 3 has just been called and its output is in content
AfterMethod3 == invoked = <<1, 2, 3>>

\* the h2 and h3 headings with "Transcript" or "Earnings Call", document order
HeaderPaths ==
  LET all == Below(soup, <<>>)
      Heading(node) ==
        /\ node.tag \in {"h2", "h3"}
        /\ Contains(Text(node), "Transcript") \/ Contains(Text(node), "Earnings Call")
  IN SelectSeqIdx(all, LAMBDA i : Heading(NodeAt(soup, all[i])), 1)

\* the trimmed texts of the p elements among the siblings after the element
\* at path, up to the last child of its parent
ParagraphSiblings(path) ==
  LET sibs == NodeAt(soup, parent(path)).kids
  IN SelectSeqIdx([i \in 1..Len(sibs) |-> Strip(Text(sibs[i]))],
                  LAMBDA i : i > path[Len(path)] /\ sibs[i].tag = "p", 1)

\* C11: method 3 anchors at the first h2/h3 heading containing "Transcript"
\* or "Earnings Call" and returns the blank-line join of the (trimmed) texts
\* of every following sibling that is a p element, in order, to the end of
\* the sibling chain; other siblings are skipped without ending the walk.
\* The walk terminates: each step of find_next_sibling stays under the same
\* parent and moves to a strictly later child, or yields None.
C11_HeaderWalk ==
  LET headers == HeaderPaths
      all == Below(soup, <<>>)
  IN /\ AfterMethod3 =>
          content = (IF headers = <<>> THEN <<>>
                     ELSE Join(ParagraphSiblings(headers[1])))
     /\ \A i \in 1..Len(all) :
          LET next == find_next_sibling(soup, all[i])
          IN next # None =>
               /\ parent(next) = parent(all[i])
               /\ next[Len(next)] > all[i][Len(all[i])]
               /\ next[Len(next)] <= Len(NodeAt(soup, parent(next)).kids)

\* C11 witness: a heading inside a div, followed by a p, a div and a p; the
\* walk passed the div and collected both paragraphs
C11_Witness ==
  /\ AfterMethod3
  /\ HeaderPaths # <<>>
  /\ Len(HeaderPaths[1]) = 2
  /\ content = A(300) \o Sep \o A(250)
  /\ pc = "done"

\* method 5 has just been called and its output is in content
AfterMethod5 == invoked = <<1, 2, 3, 4, 5>>

\* the trimmed texts of the pre elements of the document, in document order
PreTexts ==
  LET all == Below(soup, <<>>)
      pres == SelectSeqIdx(all, LAMBDA i : NodeAt(soup, all[i]).tag = "pre", 1)
  IN [i \in 1..Len(pres) |-> Strip(Text(NodeAt(soup, pres[i])))]

\* C12: method 5 returns the blank-line join, in document order, of the
\* trimmed texts of exactly the pre elements whose own trimmed text exceeds
\* 500 characters, without denylist, and the empty string when there is none.
C12_PreElements ==
  AfterMethod5 =>
    LET texts == PreTexts
    IN content = Join(SelectSeqIdx(texts, LAMBDA i : StrLen(texts[i]) >= 501, 1))

\* C12 witness: two pre elements over 500 characters, the second with
\* "seeking alpha", were joined in their order
C12_Witness ==
  /\ AfterMethod5
  /\ Len(PreTexts) = 2
  /\ content = A(501) \o Sep \o <<R("seeking alpha", 1), R("a", 600)>>

\* method 1 has just been called and its output is in content
AfterMethod1 == invoked = <<1>>

\* the Q&A header markers of the document, in document order
QAPaths ==
  LET all == Below(soup, <<>>)
      Marker(node) ==
        \/ node.tag = "strong" /\ Contains(Text(node), "Question-and-Answer")
        \/ node.tag = "h2" /\ Contains(Text(node), "Q&A")
        \/ node.tag = "h3" /\ Contains(Text(node), "Questions and Answers")
  IN SelectSeqIdx(all, LAMBDA i : Marker(NodeAt(soup, all[i])), 1)

\* the trimmed texts of the div and section elements among the children of
\* the parent of the element at path, from child number first on
ContainerSiblings(path, first) ==
  LET sibs == NodeAt(soup, parent(path)).kids
  IN SelectSeqIdx([i \in 1..Len(sibs) |-> Strip(Text(sibs[i]))],
                  LAMBDA i : i >= first /\ sibs[i].tag \in {"div", "section"}, 1)

\* C13 as stated: with no marker element and a Q&A header found, method 1
\* returns the texts of the following siblings of the header that are div or
\* section.
C13_WalkFromAnchor ==
  LET qa == QAPaths
  IN (AfterMethod1 /\ MarkerPaths = <<>> /\ qa # <<>>) =>
       content = Join(ContainerSiblings(qa[1], qa[1][Len(qa[1])] + 1))

\* C13 amended: with a marker element, method 1 returns the join of the
\* marker texts and walks nothing; with none and a Q&A header found, it
\* starts at the parent of the first header and returns the texts of that
\* parent and of the parent's following siblings that are div or section;
\* the empty string when the parent is the document itself.
C13_WalkFromParent ==
  LET qa == QAPaths
      start == parent(qa[1])
  IN AfterMethod1 =>
       /\ MarkerPaths # <<>> => content = MarkerTexts
       /\ (MarkerPaths = <<>> /\ qa = <<>>) => content = <<>>
       /\ (MarkerPaths = <<>> /\ qa # <<>>) =>
            content = (IF start = <<>> THEN <<>>
                       ELSE Join(ContainerSiblings(start, start[Len(start)])))

\* C13 witness: the walk returned the text of the div holding the header,
\* which has no following sibling of its own, and of the div after that div
C13_Witness ==
  LET qa == QAPaths
  IN /\ AfterMethod1 /\ MarkerPaths = <<>>
     /\ qa = << <<1, 1>> >>
     /\ Len(soup.kids) = 2 /\ soup.kids[2].tag = "div"
     /\ content = <<R("Question-and-Answer", 1), R("a", 100)>> \o Sep \o Strip(Text(soup.kids[2]))
     /\ pc = "done"

\* the document has nothing method number j looks for
NoMarker(j) ==
  LET all == Below(soup, <<>>)
      Tagged(tags) == \E i \in 1..Len(all) : NodeAt(soup, all[i]).tag \in tags
  IN CASE j = 1 -> MarkerPaths = <<>> /\ QAPaths = <<>>
       [] j = 2 -> FoundContainers = <<>>
       [] j = 3 -> ~ Tagged({"h2", "h3"})
       [] j = 4 -> ~ Tagged({"script"})
       [] j = 5 -> ~ Tagged({"pre"})
       [] j = 6 -> ~ Tagged({"strong"})

\* C17: a strategy whose markers are all absent returns the empty string and
\* the cascade goes on; when that is so for all six the cascade ends with the
\* fallback text or the sentinel.  No step ends anywhere else.
C17_NoMatchIsEmpty ==
  /\ pc \in {"method1", "method2", "method3", "method4", "method5", "method6", "fallback", "done"}
  /\ (JustCalled /\ NoMarker(Last)) => content = <<>> /\ pc # "done"
  /\ (pc = "done" /\ \A j \in 1..6 : NoMarker(j)) =>
       /\ Last = 7
       /\ result = (IF ParagraphPaths = <<>> THEN Failed ELSE Join(KeptByFallback))

\* C17 witness: no strategy had anything to match, and the cascade ended with
\* the text of the paragraphs
C17_Witness ==
  /\ pc = "done"
  /\ \A j \in 1..6 : NoMarker(j)
  /\ result = A(501) \o Sep \o <<R("seeking alpha", 1), R("a", 30)>>

\* the metadata extractors have all returned
MetaDone == pc \notin {"title", "date", "author"}

\* the selectors of a list that match something in the document
Matching(selectors) ==
  {i \in 1..Len(selectors) : \E k \in 1..Len(Below(soup, <<>>)) :
     Matches(NodeAt(soup, Below(soup, <<>>)[k]), selectors[i])}

\* the trimmed text of the first element in document order that the
\* earliest matching selector of the list matches, or the sentinel
EarliestSelector(selectors, sentinel) ==
  LET matching == Matching(selectors)
      all == Below(soup, <<>>)
  IN IF matching = {} THEN sentinel
     ELSE LET i == CHOOSE i \in matching : \A j \in matching : i <= j
              hit == CHOOSE k \in 1..Len(all) :
                       /\ Matches(NodeAt(soup, all[k]), selectors[i])
                       /\ \A m \in 1..(k - 1) : ~ Matches(NodeAt(soup, all[m]), selectors[i])
          IN Strip(Text(NodeAt(soup, all[hit])))

\* C14: extract_title, extract_date and extract_author each return the
\* trimmed text of the element matched by the earliest selector of their list
\* that matches anything, and their sentinel exactly when no selector of the
\* list matches.
C14_EarliestSelector ==
  MetaDone =>
    /\ title = EarliestSelector(title_selectors, <<R("Title not found", 1)>>)
    /\ date = EarliestSelector(date_selectors, <<R("Date not found", 1)>>)
    /\ author = EarliestSelector(author_selectors, <<R("Author not found", 1)>>)
    /\ title = <<R("Title not found", 1)>> <=> Matching(title_selectors) = {}
    /\ date = <<R("Date not found", 1)>> <=> Matching(date_selectors) = {}
    /\ author = <<R("Author not found", 1)>> <=> Matching(author_selectors) = {}

\* C14 witness: a p of class title comes before the h1 in the document and the
\* h1, matched by the earlier selector, gave the title; no author element
C14_Witness ==
  /\ MetaDone
  /\ Len(soup.kids) = 2
  /\ soup.kids[1].tag = "p" /\ soup.kids[2].tag = "h1"
  /\ title = A(5)
  /\ date = <<R("Date not found", 1)>>
  /\ author = <<R("Author not found", 1)>>

\* C15 as stated: extract_title never returns the empty string; a matched
\* element without text is passed over for the later selectors.
C15_TitleNeverEmpty ==
  MetaDone => title # <<>>

C18_WorkersDoNotInterfere ==
  \A w \in Workers :
    workers[w].pc = "done" =>
      workers[w].result = te_extract_content(workers[w].soup, workers[w].html_content)

\* C18 witness: worker 1 has returned the container paragraphs of its
\* document while worker 2 is in the middle of the cascade on a script document
C18_Witness ==
  /\ workers[1].pc = "done"
  /\ workers[1].result = A(300) \o Sep \o A(250)
  /\ workers[2].pc = "test"
  /\ workers[2].k = 3
  /\ workers[2].soup # workers[1].soup
  /\ workers[2].content # <<>>

\* C19 as stated: with --max-links N given, the number of links collected
\* (the links stored by collect_links, the list of extract_links) is at most
\* N in every state.
C19_AtMostMaxLinks ==
  max_links # 0 =>
    /\ links_collected <= max_links
    /\ Cardinality(stored) <= max_links
    /\ Len(all_links) <= max_links

\* the links of the batch not yet marked or given up: those not started, and
\* the one in its attempts
Pending ==
  Len(batch) + (IF dl_pc \in {"while", "download", "finally"} /\ ~ success THEN 1 ELSE 0)

\* C20: with --max-articles M given, articles_downloaded is at most M in
\* every state; a fetched batch holds at most min(batch_size, M -
\* articles_downloaded) links, so that the count and the links still to be
\* processed never add up to more than M; and once articles_downloaded has
\* reached M no link is left in the batch and the loop can only stop.
C20_AtMostMaxArticles ==
  max_articles # 0 =>
    /\ articles_downloaded <= max_articles
    /\ (dl_pc = "for" /\ link = 0) =>
         Len(batch) <= min(batch_size, max_articles - articles_downloaded)
    /\ dl_pc \in {"for", "while", "download", "finally"} =>
         articles_downloaded + Pending <= max_articles
    /\ (dl_pc = "top" /\ articles_downloaded >= max_articles) =>
         ENABLED LimitReached /\ ~ ENABLED FetchBatch /\ ~ ENABLED FetchError

\* C20 witness: with M = 1 and batch_size = 2 a batch of one link was
\* fetched and downloaded, and the loop stopped with a link still to download
C20_Witness ==
  /\ dl_pc = "done"
  /\ max_articles = 1
  /\ batch_size = 2
  /\ articles_downloaded = 1
  /\ success
  /\ LinkIds \ downloaded # {}

\* C28: what method 4 returns never contains a double quote: it is the text
\* of a script from just after the opening quote of a value up to just
\* before the next double quote, escaped or not, with \n made a newline.
C28_NoQuoteInScriptValue ==
  AfterMethod4 =>
    /\ \A i \in 1..Len(content) : content[i].c # Q
    /\ content # <<>> =>
         LET scripts == ScriptTexts
         IN \E k \in 1..Len(scripts) : \E from \in 2..Len(scripts[k]) :
              \E to \in from..Len(scripts[k]) :
                /\ scripts[k][from - 1].c = Q
                /\ scripts[k][to].c = Q
                /\ content = Decoded(SubSeq(scripts[k], from, to - 1))

\* C28 witness: the value a..a\"aaaaa was returned as a..a\ : cut at the
\* escaped quote, the backslash kept
C28_Witness ==
  /\ AfterMethod4
  /\ Len(ScriptTexts) = 1
  /\ \E i \in 2..Len(ScriptTexts[1]) : ScriptTexts[1][i].c = Q /\ ScriptTexts[1][i - 1].c = BS
  /\ content = <<R("a", 600), R(BS, 1)>>
  /\ pc = "done"

\* C25, in the states: a link has at most max_retries = 3 attempts (its
\* failed attempts, and one more when it succeeded); while its attempts go on
\* without success it is not marked; when the loop has left a link, the link
\* is marked exactly when its file exists (it existed, or an attempt saved
\* it), and a link left unmarked has failed 3 times.
C25_States ==
  /\ retry_count <= max_retries
  /\ success => retry_count < max_retries
  /\ (dl_pc \in {"while", "download", "finally"} /\ ~ success) => link \notin downloaded
  /\ (dl_pc = "for" /\ link # 0) =>
       /\ link \in downloaded <=> link \in files
       /\ link \notin downloaded => (retry_count = max_retries /\ ~ success)

\* C25, in the steps: articles_downloaded and the downloaded flags change
\* together, by one link not marked before, and only when the file of the
\* link existed or the attempt succeeded; after a success no attempt follows.
C25_Steps ==
  /\ (articles_downloaded' # articles_downloaded \/ downloaded' # downloaded) =>
       /\ articles_downloaded' = articles_downloaded + 1
       /\ link' \notin downloaded
       /\ downloaded' = downloaded \cup {link'}
       /\ \/ dl_pc = "for" /\ link' \in files
          \/ dl_pc = "download" /\ success' /\ ~ success
  /\ (dl_pc = "while" /\ success) => dl_pc' = "for"

C27_BrowserClosedBetween ==
  browser => dl_pc \in {"download", "finally"}

\* C27 witness: in one link, the browser failed to start once and a download
\* failed once; the browser is closed before the third attempt
C27_Witness ==
  /\ dl_pc = "while"
  /\ retry_count = 2
  /\ total_retries = 1
  /\ articles_downloaded = 0
  /\ ~ browser

\* C26: download_content returns without the operator's answer: every pass
\* of the outer loop that goes back to the top of the loop without asking has
\* marked at least one link of its batch downloaded.
C26_PassMarksOrEnds ==
  [][(dl_pc = "for" /\ batch = <<>> /\ dl_pc' = "top") =>
       \E i \in 1..Len(dl_links) : dl_links[i] \in downloaded]_vars

\* C21: the seekingalpha_links table holds at most one row per URL, also when
\* the store_link calls of two collector processes interleave.
C21_OneRowPerUrl ==
  \A i, j \in RowIds :
    seekingalpha_links[i].url = seekingalpha_links[j].url => i = j

\* C22, in the states: every link with extracted = 1 has downloaded = 1
C22_States ==
  \A i \in RowIds : seekingalpha_links[i].extracted => seekingalpha_links[i].downloaded

\* C22, in the steps: no flag of a link goes from 1 back to 0, and no row is lost
C22_Steps ==
  /\ Len(seekingalpha_links') >= Len(seekingalpha_links)
  /\ \A i \in RowIds :
       /\ seekingalpha_links[i].downloaded => seekingalpha_links'[i].downloaded
       /\ seekingalpha_links[i].extracted => seekingalpha_links'[i].extracted

\* C22: under any interleaving of the collectors, the downloader and the
\* extractor on one table, a link with extracted = 1 has downloaded = 1, and
\* neither flag of a link goes from 1 back to 0.
C22_ExtractedImpliesDownloaded == [] C22_States /\ [][C22_Steps]_vars

\* C22 witness: of two links stored by different collectors, one is
\* downloaded and extracted and the other is in neither state
C22_Witness ==
  /\ Len(seekingalpha_links) = 2
  /\ seekingalpha_links[1].extracted /\ seekingalpha_links[1].downloaded
  /\ ~ seekingalpha_links[2].downloaded /\ ~ seekingalpha_links[2].extracted
  /\ seekingalpha_links[1].url # seekingalpha_links[2].url
  /\ cd_pc = "for" /\ ex_pc = "poll"

\* C23: in the polling loops every pending link whose own processing would
\* succeed is eventually processed and marked, whatever the other links do:
\* a link not downloaded whose download does not fail gets downloaded = 1,
\* and a downloaded link whose extraction does not fail gets extracted = 1.
C23_NoStarvation ==
  \A i \in 1..MaxRows :
    /\ (/\ i \in RowIds
        /\ ~ seekingalpha_links[i].downloaded
        /\ seekingalpha_links[i].url \notin failing)
         ~> (i \in RowIds /\ seekingalpha_links[i].downloaded)
    /\ (/\ i \in RowIds
        /\ seekingalpha_links[i].downloaded
        /\ ~ seekingalpha_links[i].extracted
        /\ seekingalpha_links[i].url \notin unreadable)
         ~> (i \in RowIds /\ seekingalpha_links[i].extracted)

\* C24: every link with downloaded = 1 has, in the file named from the first
\* 50 characters of its sanitized title, the page of its own URL.
C24_FileHoldsOwnPage ==
  \A i \in RowIds :
    seekingalpha_links[i].downloaded =>
      html_files[html_filename(seekingalpha_links[i].title)] = seekingalpha_links[i].url

====
